---- MODULE Spec2Model ----
(***************************************************************************)
(* racunis: a database-backed, priority-ordered job queue.                 *)
(*                                                                         *)
(* The model covers the process-wide Queue registry, the Queue and Worker  *)
(* lifecycle, the job table with its row locks, the Worker polling loop    *)
(* (acquireJob transaction, retry, final update, event emission), the      *)
(* retry utility, the schema that initQueueData creates with either        *)
(* driver, and the Clients and connections of the Queue's calls.           *)
(* Asynchronous methods are split at their awaits: every action is one     *)
(* continuation of the JavaScript event loop together with the database    *)
(* call it was waiting for.                                                *)
(***************************************************************************)
EXTENDS Integers, Sequences, FiniteSets, TLC

\* ------------------------------------------------------------------ bounds
MaxJobs == 2
MaxRetries == 2
MaxPriority == 2
MaxTime == 2
MaxCloseCalls == 2
MaxStopCalls == 2
MaxCalls == 2
MaxConnections == 1

Names == {"A", "B"}
QueueIds == {"q1", "q2", "q3"}
WorkerIds == {"w1", "w2"}
LoopIds == {1, 2}
Priorities == 1..MaxPriority
Times == 1..MaxTime
CloseIds == 1..MaxCloseCalls
CallIds == 1..MaxCalls
Connections == 1..MaxConnections
Backends == {"postgresql", "mysql"}

\* ------------------------------------------------------- program constants
JobState == [waiting |-> "waiting", active |-> "active",
             completed |-> "completed", failed |-> "failed"]

NoQueue == "none"
NoJob == 0
NoLoop == 0

\* A string is a sequence of pieces, so that concatenation and containment
\* are computed and not assumed.  NULL / undefined / '' is the empty string.
Null == << >>

Digits == <<"0", "1", "2", "3", "4", "5", "6", "7", "8", "9">>

RECURSIVE String(_)
String(n) == IF n < 10 THEN <<Digits[n + 1]>> ELSE String(n \div 10) \o <<Digits[(n % 10) + 1]>>

Contains(s, t) == \E i \in 0..(Len(s) - Len(t)) : SubSeq(s, i + 1, i + Len(t)) = t

NoError == [name |-> "none", message |-> Null]

Error(message) == [name |-> "Error", message |-> message]

JobNotFoundError(id) ==
  [name |-> "JobNotFoundError",
   message |-> <<"Couldn't find any job with details: ", "{\"id\":">> \o String(id) \o <<"}">>]

AcquirableJobNotFoundError ==
  [name |-> "AcquirableJobNotFoundError",
   message |-> <<"Couldn't find any job with details: ", "{\"state\":\"waiting\"}">>]

MaxRetriesError(retries, error) ==
  [name |-> "MaxRetriesError",
   message |-> <<"Function failed after ">> \o String(retries) \o <<" retries: ">> \o error.message]

\* normalizeError: an Error is returned as it is, anything else is wrapped.
normalizeError(error) ==
  IF error.name = "value" THEN Error(error.message) ELSE error

QueueExistsError(name) ==
  Error(<<"Queue with name '", name, "' already exists", ".">>)

\* What the environment throws: the processor, a listener, the driver.
ProcessorError == Error(<<"boom">>)
ListenerError == Error(<<"listener threw">>)
DriverError == Error(<<"connection lost">>)

\* ---------------------------------------------------------------- payloads
\* A payload is a plain object: the sequence of its properties.  The value of
\* a property is a number (1 or NaN), undefined or, in a parsed text, null.
Property(key, value) == [key |-> key, value |-> value]

TaskPayload == <<Property("task", "1")>>

Payloads == {TaskPayload, <<Property("task", "NaN")>>, <<Property("task", "undefined")>>}

\* The members of the JSON text of an object: a property whose value is
\* undefined is left out, and NaN is written as null.
RECURSIVE members(_)
members(value) ==
  IF value = << >> THEN << >>
  ELSE (IF Head(value).value = "undefined" THEN << >>
        ELSE <<Head(value).key, IF Head(value).value = "NaN" THEN "null" ELSE Head(value).value>>)
       \o members(Tail(value))

\* JSON.stringify(payload): the text, as its tokens.
stringify(value) == <<"{">> \o members(value) \o <<"}">>

\* JSON.parse, which the driver applies to the payload column of a row it reads.
parse(text) ==
  [i \in 1..((Len(text) - 2) \div 2) |-> Property(text[2 * i], text[2 * i + 1])]

\* AbstractDatabaseQueue.defaultJobPriority
defaultJobPriority == 5

Omitted == << >>

\* Parameter with a defect: an omitted argument becomes 0.
ParameterNoDefault(passed, default) == IF passed = Omitted THEN 0 ELSE passed[1]

\* A parameter with a default value: what was passed, or the default when
\* the argument was omitted.
Parameter(passed, default) == IF passed = Omitted THEN default ELSE passed[1]

\* ------------------------------------------------------------------ schema
\* enum ErrorCode of the two clients.
ErrorCode(backend) ==
  IF backend = "postgresql"
  THEN [UniqueViolation |-> "23505", DuplicateObject |-> "42710"]
  ELSE [UniqueViolation |-> "ER_DUP_ENTRY", DuplicateObject |-> "ER_DUP_KEYNAME"]

NoCode == "none"
UndefinedTable(backend) == IF backend = "postgresql" THEN "42P01" ELSE "ER_NO_SUCH_TABLE"

\* A schema object: a type, a function and a table have no table of their own.
Object(kind, name, table) == [kind |-> kind, name |-> name, table |-> table]

\* A DDL statement with the error codes it is run with; raises: the code of
\* the error that the database raises for it in place of running it, if any.
Statement(verb, object, expected) ==
  [verb |-> verb, object |-> object, expected |-> expected, raises |-> NoCode]

Raising(statement, code) == [statement EXCEPT !.raises = code]

\* The codes that signal 'object already exists'.
AlreadyExists(backend) == {ErrorCode(backend).UniqueViolation, ErrorCode(backend).DuplicateObject}

InsufficientPrivilege(backend) ==
  IF backend = "postgresql" THEN "42501" ELSE "ER_TABLEACCESS_DENIED_ERROR"

Codes(backend) == AlreadyExists(backend) \cup {InsufficientPrivilege(backend)}

\* The errors a statement can meet whatever the schema holds: the role may
\* not create the object; and in PostgreSQL a session that creates the same
\* object at the same time makes the insert into the catalogue fail on its
\* unique index (23505) and leaves the object in the schema, except for
\* CREATE TRIGGER, which waits for the lock of its table.
Raisable(backend, statement) ==
  {InsufficientPrivilege(backend)} \cup
  IF backend = "postgresql" /\ statement.verb # "CREATE TRIGGER"
  THEN {ErrorCode(backend).UniqueViolation} ELSE {}

\* MySqlPoolClient.initQueueData with a defect: a duplicate index is expected
\* under the code of a duplicate row.
MySqlStatementsWrongCode(n) ==
  LET code == ErrorCode("mysql") IN
  << Statement("CREATE TABLE IF NOT EXISTS", Object("table", n, NoQueue),
               {code.UniqueViolation}),
     Statement("CREATE INDEX", Object("index", "idx_queue_priority_order", n),
               {code.UniqueViolation}) >>

\* The statements of PostgreSqlPoolClient.initQueueData for queue n, each with
\* the error codes it is run with.
PostgreSqlStatements(n) ==
  LET code == ErrorCode("postgresql") IN
  << Statement("CREATE TYPE", Object("type", "job_state", NoQueue),
               {code.UniqueViolation, code.DuplicateObject}),
     Statement("CREATE TABLE IF NOT EXISTS", Object("table", n, NoQueue),
               {code.UniqueViolation}),
     Statement("CREATE INDEX IF NOT EXISTS", Object("index", "idx_queue_priority_order", n),
               {code.UniqueViolation}),
     Statement("CREATE OR REPLACE FUNCTION", Object("function", "update_modified_column", NoQueue),
               {code.UniqueViolation}),
     Statement("CREATE TRIGGER", Object("trigger", "update_modified_column_trigger", n),
               {code.DuplicateObject}) >>

\* The statements of MySqlPoolClient.initQueueData for queue n: the state
\* enum and the ON UPDATE clause of updatedAt are part of the table.
MySqlStatements(n) ==
  LET code == ErrorCode("mysql") IN
  << Statement("CREATE TABLE IF NOT EXISTS", Object("table", n, NoQueue),
               {code.UniqueViolation}),
     Statement("CREATE INDEX", Object("index", "idx_queue_priority_order", n),
               {code.DuplicateObject}) >>

Statements(backend, n) ==
  IF backend = "postgresql" THEN PostgreSqlStatements(n) ELSE MySqlStatements(n)

\* The objects of the schema that take the name of object o.  PostgreSQL
\* keeps tables and indexes in one namespace per schema and triggers per
\* table; MySQL keeps indexes per table.
Clash(backend, schema, o) ==
  IF o.kind \in {"table", "index"} /\ backend = "postgresql"
  THEN {x \in schema : x.kind \in {"table", "index"} /\ x.name = o.name}
  ELSE {x \in schema : x.kind = o.kind /\ x.name = o.name /\ x.table = o.table}

\* this.client.query(query) of a DDL statement: the schema afterwards and the
\* code of the error raised, if any.
query(backend, schema, statement) ==
  LET o == statement.object IN
  IF statement.raises # NoCode
  THEN [schema |-> IF statement.raises = ErrorCode(backend).UniqueViolation
                   THEN schema \cup {o} ELSE schema,
        code |-> statement.raises]
  ELSE IF statement.verb = "CREATE OR REPLACE FUNCTION"
  THEN [schema |-> schema \cup {o}, code |-> NoCode]
  ELSE IF o.table # NoQueue /\ Object("table", o.table, NoQueue) \notin schema
  THEN [schema |-> schema, code |-> UndefinedTable(backend)]
  ELSE IF Clash(backend, schema, o) # {}
  THEN [schema |-> schema,
        code |-> IF statement.verb \in {"CREATE TABLE IF NOT EXISTS", "CREATE INDEX IF NOT EXISTS"}
                 THEN NoCode ELSE ErrorCode(backend).DuplicateObject]
  ELSE [schema |-> schema \cup {o}, code |-> NoCode]

DatabaseError(code) == [name |-> "error", message |-> <<code>>]

\* executeQueryWithExpectedErrors with a defect: the catch block rethrows
\* nothing.
executeQueryIgnoringErrors(backend, schema, statement) ==
  [schema |-> query(backend, schema, statement).schema, error |-> NoError]

\* #executeQueryWithExpectedErrors(query, ...expectedErrorCodes)
executeQueryWithExpectedErrors(backend, schema, statement) ==
  LET r == query(backend, schema, statement) IN
  [schema |-> r.schema,
   error |-> IF r.code = NoCode \/ r.code \in statement.expected
             THEN NoError ELSE DatabaseError(r.code)]

\* The awaits of initQueueData, one after the other: a statement that throws
\* ends it.
RECURSIVE executeAll(_, _, _)
executeAll(backend, schema, statements) ==
  IF statements = << >> THEN [schema |-> schema, error |-> NoError]
  ELSE LET r == executeQueryWithExpectedErrors(backend, schema, Head(statements)) IN
       IF r.error # NoError THEN r
       ELSE executeAll(backend, r.schema, Tail(statements))

initQueueData(backend, schema, n) == executeAll(backend, schema, Statements(backend, n))

\* The schema in which the tables of all queue names have been initialised.
Initialised(backend) ==
  initQueueData(backend, initQueueData(backend, {}, "A").schema, "B").schema

\* ------------------------------------------------------------------- state
VARIABLES
  instances,      \* AbstractDatabaseQueue.#instances: name -> Queue handle
  queues,         \* the Queue objects of the process
  closes,         \* the close() calls in flight on each Queue
  workers,        \* the Worker objects of the process
  loops,          \* the #processJobs() tasks
  tables,         \* per queue name: the rows of its table, by id
  nextId,         \* per queue name: the serial of its id column
  hist,           \* per queue name and job id: what happened to the job
  database,       \* the database server: its driver and its schema objects
  calls           \* the calls of initialize/add/getJobCounts/drain/empty in flight

vars == <<instances, queues, closes, workers, loops, tables, nextId, hist, database, calls>>

AbsentQueue ==
  [status |-> "absent", name |-> NoQueue, running |-> FALSE, workers |-> {},
   pool |-> "none", poolCloses |-> 0, errorListener |-> FALSE, closed |-> FALSE,
   error |-> NoError, handle |-> "none"]

NoClose == [pc |-> "idle", children |-> << >>]

AbsentWorker ==
  [status |-> "absent", queue |-> NoQueue, running |-> FALSE, promise |-> NoLoop,
   pool |-> "none", poolCloses |-> 0, maxRetries |-> 0, stops |-> << >>]

FreeLoop ==
  [pc |-> "free", worker |-> "none", job |-> NoJob, attempt |-> 0,
   error |-> NoError, last |-> "none", transaction |-> FALSE]

\* acquired: how many acquireJob calls returned the job, and to which Worker
\* last; calls, ok: the calls of the processor and the outcome of the last
\* one; events: the events emitted for the job, in order; rank: the position
\* of the job's 'completed' event among those of its queue (0: none yet).
\* added: the payload that add() was given.
NoHistory ==
  [acquired |-> 0, worker |-> "none", calls |-> 0, ok |-> FALSE, events |-> << >>,
   rank |-> 0, added |-> TaskPayload]

NoResult == [job |-> NoJob, counts |-> [s \in {} |-> Null], error |-> NoError]

\* A call of initialize, add, getJobCounts, drain or empty.  pool, conn: the
\* pool it takes its Client from and the connection the Client wraps;
\* released: the calls of release() on that Client; poolCloses: the calls of
\* close() on the temporary pool of initialize; after: the operations that
\* were queued on the connection before this call's operation.
NoCall ==
  [op |-> "none", queue |-> NoQueue, pc |-> "idle", pool |-> "none", conn |-> 0,
   released |-> 0, poolCloses |-> 0, after |-> {}, payload |-> << >>,
   priority |-> Omitted, states |-> {}, result |-> NoResult]

\* A process with no Queue and no Worker yet, and a database of the given
\* driver with the given schema and no job.
InitOn(backend, schema) ==
  /\ instances = [n \in Names |-> NoQueue]
  /\ queues = [q \in QueueIds |-> AbsentQueue]
  /\ closes = [q \in QueueIds |-> [c \in CloseIds |-> NoClose]]
  /\ workers = [w \in WorkerIds |-> AbsentWorker]
  /\ loops = [l \in LoopIds |-> FreeLoop]
  /\ tables = [n \in Names |-> << >>]
  /\ nextId = [n \in Names |-> 1]
  /\ hist = [n \in Names |-> << >>]
  /\ database = [backend |-> backend, schema |-> schema]
  /\ calls = [c \in CallIds |-> NoCall]

\* The tables of the queue names were initialised by an earlier run.
Init == InitOn("postgresql", Initialised("postgresql"))

\* ---------------------------------------------------------------- helpers
WorkerOf(l) == loops[l].worker
QueueOf(l) == workers[WorkerOf(l)].queue
NameOf(l) == queues[QueueOf(l)].name
Rows(n) == DOMAIN tables[n]

Min(S) == CHOOSE x \in S : \A y \in S : x <= y

Ev(on, event, state, message) ==
  [on |-> on, event |-> event, state |-> state, message |-> message]

\* Emitted with a defect: #processJob emits on the Worker only.
EmittedOnWorkerOnly(thrower, event, state, message) ==
  <<Ev("worker", event, state, message)>>

\* TypedEventTarget.emit is EventEmitter.emit: the listeners run synchronously
\* and a listener that throws makes emit throw.  thrower is "none", or the
\* emitter ("worker" or "queue") whose listener threw: the Worker emits first,
\* so the Queue's emit is not reached when a Worker listener throws.
Emitted(thrower, event, state, message) ==
  IF thrower = "worker"
  THEN <<Ev("worker", event, state, message)>>
  ELSE <<Ev("worker", event, state, message), Ev("queue", event, state, message)>>

Throwers == {"none", "worker", "queue"}

\* The jobs of queue n for which a 'completed' event was emitted, and their
\* ids in the order of these events (what a 'completed' listener collects).
Ranked(n) == {id \in DOMAIN hist[n] : hist[n][id].rank > 0}

completedJobs(n) ==
  [i \in 1..Cardinality(Ranked(n)) |-> CHOOSE id \in Ranked(n) : hist[n][id].rank = i]

\* ------------------------------------------------------------ the database
\* Rows locked by the open acquireJob transactions on table n: a transaction
\* holds the row it selected FOR UPDATE until its COMMIT or ROLLBACK.
Locked(n) ==
  {loops[l].job : l \in {k \in LoopIds : loops[k].pc \in {"update", "commit"} /\ NameOf(k) = n}}

\* Acquirable with a defect: the SELECT without FOR UPDATE SKIP LOCKED.
AcquirableNoSkipLocked(n) ==
  {id \in Rows(n) : tables[n][id].state = JobState.waiting}

\* WHERE state = 'waiting' ... FOR UPDATE SKIP LOCKED
Acquirable(n) ==
  {id \in Rows(n) : tables[n][id].state = JobState.waiting /\ id \notin Locked(n)}

\* OrderBy with a defect: ORDER BY priority (ascending), createdAt, id.
OrderByAscending(n, a, b) ==
  LET x == tables[n][a]
      y == tables[n][b]
  IN  \/ x.priority < y.priority
      \/ x.priority = y.priority /\ x.createdAt < y.createdAt
      \/ x.priority = y.priority /\ x.createdAt = y.createdAt /\ a < b

\* ORDER BY priority DESC, createdAt, id
OrderBy(n, a, b) ==
  LET x == tables[n][a]
      y == tables[n][b]
  IN  \/ x.priority > y.priority
      \/ x.priority = y.priority /\ x.createdAt < y.createdAt
      \/ x.priority = y.priority /\ x.createdAt = y.createdAt /\ a < b

\* SelectForUpdate with a defect: ORDER BY id.
SelectForUpdateById(n) ==
  IF Acquirable(n) = {} THEN NoJob ELSE Min(Acquirable(n))

\* LIMIT 1
SelectForUpdate(n) ==
  IF Acquirable(n) = {} THEN NoJob
  ELSE CHOOSE a \in Acquirable(n) : \A b \in Acquirable(n) \ {a} : OrderBy(n, a, b)

\* updateJobStateById with a defect: the UPDATE also sets priority to 0.
updateJobStateByIdResetsPriority(n, id, state, errorMessage) ==
  [tables EXCEPT ![n][id] = [@ EXCEPT !.state = state, !.errorMessage = errorMessage,
                                      !.priority = 0]]

\* UPDATE ... SET state = $1, errorMessage = $2 WHERE id = $3
updateJobStateById(n, id, state, errorMessage) ==
  [tables EXCEPT ![n][id] = [@ EXCEPT !.state = state, !.errorMessage = errorMessage]]

\* INSERT INTO ... (payload, state, priority) VALUES ...
insertJob(n, payload, state, priority, createdAt) ==
  [tables EXCEPT ![n] = @ @@ (nextId[n] :>
     [payload |-> parse(stringify(payload)), state |-> state, priority |-> priority,
      createdAt |-> createdAt, errorMessage |-> Null])]

\* deleteJobsByState with a defect: DELETE FROM ... without the WHERE clause.
deleteJobsByStateAll(n, states) ==
  [tables EXCEPT ![n] = << >>]

\* DELETE FROM ... WHERE state IN (...)
deleteJobsByState(n, states) ==
  [tables EXCEPT ![n] = [id \in {i \in Rows(n) : tables[n][i].state \notin states} |-> tables[n][id]]]

\* -------------------------------------------------------------------- Queue
\* QueueNew with a defect: the name is registered before it is looked up, so a
\* duplicate takes the registry entry over.
QueueNewRegistersFirst(q, name, autostart) ==
  /\ queues[q].status = "absent"
  /\ instances' = [instances EXCEPT ![name] = q]
  /\ IF instances[name] # NoQueue
     THEN queues' = [queues EXCEPT ![q].status = "rejected",
                                   ![q].error = QueueExistsError(name)]
     ELSE queues' = [queues EXCEPT ![q].status = "constructed",
                                   ![q].name = name,
                                   ![q].pool = "open",
                                   ![q].running = autostart,
                                   ![q].handle = "returned"]
  /\ UNCHANGED <<closes, workers, loops, tables, nextId, hist, database, calls>>

\* new Queue(name, poolConfig, {autostart}): the constructor.  With no Worker
\* attached yet, start() only sets the running flag.  handle: whether the
\* program holds the object ("returned": by the constructor or by create;
\* "pending": create awaits initialize(); "lost": create has rejected).
QueueNew(q, name, autostart) ==
  /\ queues[q].status = "absent"
  /\ IF instances[name] # NoQueue
     THEN /\ queues' = [queues EXCEPT ![q].status = "rejected",
                                      ![q].error = QueueExistsError(name)]
          /\ UNCHANGED instances
     ELSE /\ instances' = [instances EXCEPT ![name] = q]
          /\ queues' = [queues EXCEPT ![q].status = "constructed",
                                      ![q].name = name,
                                      ![q].pool = "open",
                                      ![q].running = autostart,
                                      ![q].handle = "returned"]
  /\ UNCHANGED <<closes, workers, loops, tables, nextId, hist, database, calls>>

\* queue.on('error', listener)
OnError(q) ==
  /\ queues[q].status = "constructed"
  /\ ~queues[q].errorListener
  /\ queues' = [queues EXCEPT ![q].errorListener = TRUE]
  /\ UNCHANGED <<instances, closes, workers, loops, tables, nextId, hist, database, calls>>

\* queue.add(payload, priority) as one step, from the call to the promise
\* it returns being fulfilled: the database sets id and createdAt.
AddPayload(q, payload, priority, createdAt) ==
  LET n == queues[q].name IN
  /\ queues[q].status = "constructed"
  /\ queues[q].pool = "open"
  /\ nextId[n] <= MaxJobs
  /\ tables' = insertJob(n, payload, JobState.waiting, Parameter(priority, defaultJobPriority),
                         createdAt)
  /\ nextId' = [nextId EXCEPT ![n] = @ + 1]
  /\ hist' = [hist EXCEPT ![n] = Append(@, [NoHistory EXCEPT !.added = payload])]
  /\ UNCHANGED <<instances, queues, closes, workers, loops, database, calls>>

\* queue.add({task: 1}, priority)
Add(q, priority, createdAt) == AddPayload(q, TaskPayload, <<priority>>, createdAt)

\* ------------------------------------------------------------------- Worker
Launch(w) == [FreeLoop EXCEPT !.pc = "sleepP", !.worker = w]

\* A loop promise that a pending stop() or close() awaits.
Awaited(l) ==
  \/ \E w \in WorkerIds : \E i \in DOMAIN workers[w].stops :
       workers[w].stops[i].pc = "awaiting" /\ workers[w].stops[i].loop = l
  \/ \E q \in QueueIds, c \in CloseIds : \E w \in DOMAIN closes[q][c].children :
       closes[q][c].children[w].pc = "stop" /\ closes[q][c].children[w].loop = l

\* The task slots a new #processJobs() can take: unused ones, and those of
\* tasks that have ended and that nothing awaits any more.
FreeLoops ==
  {l \in LoopIds : \/ loops[l].pc = "free"
                   \/ loops[l].pc \in {"resolved", "rejected"} /\ ~Awaited(l)}

\* new Worker(queue, processor, {autostart, maxRetries}): the constructor,
\* with start() inlined: nothing happens unless the Queue is running.
WorkerNew(w, q, autostart, maxRetries) ==
  /\ workers[w].status = "absent"
  /\ queues[q].status = "constructed"
  /\ queues' = [queues EXCEPT ![q].workers = @ \cup {w}]
  /\ IF autostart /\ queues[q].running
     THEN /\ FreeLoops # {}
          /\ workers' = [workers EXCEPT ![w] =
               [status |-> "created", queue |-> q, running |-> TRUE,
                promise |-> Min(FreeLoops), pool |-> "open", poolCloses |-> 0,
                maxRetries |-> maxRetries, stops |-> << >>]]
          /\ loops' = [loops EXCEPT ![Min(FreeLoops)] = Launch(w)]
     ELSE /\ workers' = [workers EXCEPT ![w] =
               [status |-> "created", queue |-> q, running |-> FALSE,
                promise |-> NoLoop, pool |-> "open", poolCloses |-> 0,
                maxRetries |-> maxRetries, stops |-> << >>]]
          /\ UNCHANGED loops
  /\ UNCHANGED <<instances, closes, tables, nextId, hist, database, calls>>

\* ----------------------------------------------------- the polling loop
\* EndOfCycle with a defect: the loop returns after its first cycle.
EndOfCycleOnce(l) == "resolved"

\* while (this.#running): evaluated when a cycle has ended.
EndOfCycle(l) == IF workers[WorkerOf(l)].running THEN "sleepP" ELSE "resolved"

\* await setTimeout(processingInterval)
SleepProcessing(l) ==
  /\ loops[l].pc = "sleepP"
  /\ loops' = [loops EXCEPT ![l].pc = "getClient"]
  /\ UNCHANGED <<instances, queues, closes, workers, tables, nextId, hist, database, calls>>

\* await this.#pool.getClient(name)
GetClient(l) ==
  /\ loops[l].pc = "getClient"
  /\ workers[WorkerOf(l)].pool = "open"
  /\ loops' = [loops EXCEPT ![l].pc = "select"]
  /\ UNCHANGED <<instances, queues, closes, workers, tables, nextId, hist, database, calls>>

\* getClient rejects: the driver cannot connect.
GetClientFails(l) ==
  /\ loops[l].pc = "getClient"
  /\ loops' = [loops EXCEPT ![l].pc = "catch", ![l].error = DriverError]
  /\ UNCHANGED <<instances, queues, closes, workers, tables, nextId, hist, database, calls>>

\* getClient rejects: the Worker's pool has been closed.
GetClientClosed(l) ==
  /\ loops[l].pc = "getClient"
  /\ workers[WorkerOf(l)].pool = "closed"
  /\ loops' = [loops EXCEPT ![l].pc = "catch", ![l].error = DriverError]
  /\ UNCHANGED <<instances, queues, closes, workers, tables, nextId, hist, database, calls>>

\* AcquireSelect with a defect: FOR UPDATE without SKIP LOCKED, the SELECT
\* waits while the first waiting row is locked by another transaction.
AcquireSelectBlocking(l) ==
  LET n == NameOf(l)
      waiting == AcquirableNoSkipLocked(n)
      id == IF waiting = {} THEN NoJob
            ELSE CHOOSE a \in waiting : \A b \in waiting \ {a} : OrderBy(n, a, b)
  IN
  /\ loops[l].pc = "select"
  /\ id \notin Locked(n)
  /\ loops' = IF id = NoJob
              THEN [loops EXCEPT ![l].pc = "catch", ![l].error = AcquirableJobNotFoundError]
              ELSE [loops EXCEPT ![l].pc = "update", ![l].job = id,
                                 ![l].transaction = TRUE]
  /\ UNCHANGED <<instances, queues, closes, workers, tables, nextId, hist, database, calls>>

\* acquireJob: BEGIN; SELECT ... FOR UPDATE SKIP LOCKED.  Without a row the
\* transaction is rolled back and AcquirableJobNotFoundError is thrown; with
\* one, the transaction stays open (transaction = TRUE) until COMMIT or
\* ROLLBACK.
AcquireSelect(l) ==
  LET id == SelectForUpdate(NameOf(l)) IN
  /\ loops[l].pc = "select"
  /\ loops' = IF id = NoJob
              THEN [loops EXCEPT ![l].pc = "catch", ![l].error = AcquirableJobNotFoundError]
              ELSE [loops EXCEPT ![l].pc = "update", ![l].job = id,
                                 ![l].transaction = TRUE]
  /\ UNCHANGED <<instances, queues, closes, workers, tables, nextId, hist, database, calls>>

\* AcquireUpdate with a defect: acquireJob returns the job without COMMIT,
\* and the processor is called inside the transaction.
AcquireUpdateNoCommit(l) ==
  /\ loops[l].pc = "update"
  /\ loops' = [loops EXCEPT ![l].pc = "attempt", ![l].attempt = 1]
  /\ UNCHANGED <<instances, queues, closes, workers, tables, nextId, hist, database, calls>>

\* acquireJob: updateJobStateById(id, active) inside the transaction; the new
\* state is visible to others at COMMIT.
AcquireUpdate(l) ==
  /\ loops[l].pc = "update"
  /\ loops' = [loops EXCEPT ![l].pc = "commit"]
  /\ UNCHANGED <<instances, queues, closes, workers, tables, nextId, hist, database, calls>>

\* AcquireFails with a defect: the catch block rethrows without ROLLBACK.
AcquireFailsNoRollback(l) ==
  /\ loops[l].pc \in {"select", "update", "commit"}
  /\ loops' = [loops EXCEPT ![l].pc = "catch", ![l].job = NoJob, ![l].error = DriverError]
  /\ UNCHANGED <<instances, queues, closes, workers, tables, nextId, hist, database, calls>>

\* acquireJob: a statement of the transaction fails; ROLLBACK and rethrow.
AcquireFails(l) ==
  /\ loops[l].pc \in {"select", "update", "commit"}
  /\ loops' = [loops EXCEPT ![l].pc = "catch", ![l].job = NoJob, ![l].error = DriverError,
                            ![l].transaction = FALSE]
  /\ UNCHANGED <<instances, queues, closes, workers, tables, nextId, hist, database, calls>>

\* acquireJob: COMMIT, then #processJob goes on: emit 'activated' on the
\* Worker and on the Queue, and retry() makes the first call of the processor.
\* A listener that throws is outside the inner try: the cycle is abandoned.
AcquireCommit(l, thrower) ==
  LET n == NameOf(l)
      id == loops[l].job
  IN
  /\ loops[l].pc = "commit"
  /\ tables' = updateJobStateById(n, id, JobState.active, Null)
  /\ hist' = [hist EXCEPT ![n][id].acquired = @ + 1,
                          ![n][id].worker = WorkerOf(l),
                          ![n][id].events = @ \o Emitted(thrower, "activated", JobState.active, Null)]
  /\ loops' = IF thrower = "none"
              THEN [loops EXCEPT ![l].pc = "attempt", ![l].attempt = 1,
                                 ![l].transaction = FALSE]
              ELSE [loops EXCEPT ![l].pc = "catch", ![l].job = NoJob, ![l].error = ListenerError,
                                 ![l].transaction = FALSE]
  /\ UNCHANGED <<instances, queues, closes, workers, nextId, database, calls>>

\* retry with a defect: the limit is tested with > in place of >=.
retryOffByOne(currentAttempt, maxRetries, error) ==
  IF currentAttempt > maxRetries
  THEN [throws |-> TRUE, error |-> MaxRetriesError(maxRetries, normalizeError(error)),
        next |-> currentAttempt]
  ELSE [throws |-> FALSE, error |-> NoError, next |-> currentAttempt + 1]

\* retry(): the catch branch of attempt(currentAttempt).
retry(currentAttempt, maxRetries, error) ==
  IF currentAttempt >= maxRetries
  THEN [throws |-> TRUE, error |-> MaxRetriesError(maxRetries, normalizeError(error)),
        next |-> currentAttempt]
  ELSE [throws |-> FALSE, error |-> NoError, next |-> currentAttempt + 1]

\* One call of the processor returns or throws.
Attempt(l, ok) ==
  LET n == NameOf(l)
      id == loops[l].job
      r == retry(loops[l].attempt, workers[WorkerOf(l)].maxRetries, ProcessorError)
  IN
  /\ loops[l].pc = "attempt"
  /\ hist' = [hist EXCEPT ![n][id].calls = @ + 1, ![n][id].ok = ok]
  /\ loops' = IF ok THEN [loops EXCEPT ![l].pc = "updC"]
              ELSE IF r.throws THEN [loops EXCEPT ![l].pc = "updF", ![l].error = r.error]
              ELSE [loops EXCEPT ![l].attempt = r.next]
  /\ UNCHANGED <<instances, queues, closes, workers, tables, nextId, database, calls>>

\* updateJobStateById(id, completed), emit 'completed' twice, release the
\* client and test the running flag.  Whatever is thrown here, by the update
\* or by a listener, is caught by the inner catch of #processJob.
UpdateCompletedThrowing(l, thrower, thrown) ==
  LET n == NameOf(l)
      id == loops[l].job
  IN
  /\ loops[l].pc = "updC"
  /\ IF id \notin Rows(n)
     THEN /\ loops' = [loops EXCEPT ![l].pc = "updF", ![l].error = JobNotFoundError(id)]
          /\ UNCHANGED <<tables, hist, database, calls>>
     ELSE /\ tables' = updateJobStateById(n, id, JobState.completed, Null)
          /\ hist' = [hist EXCEPT ![n][id].events =
                        @ \o Emitted(thrower, "completed", JobState.completed, Null),
                                  ![n][id].rank =
                        IF @ = 0 THEN Cardinality(Ranked(n)) + 1 ELSE @]
          /\ loops' = IF thrower = "none"
                      THEN [loops EXCEPT ![l].pc = EndOfCycle(l), ![l].job = NoJob,
                                         ![l].attempt = 0]
                      ELSE [loops EXCEPT ![l].pc = "updF",
                                         ![l].error = normalizeError(thrown)]
  /\ UNCHANGED <<instances, queues, closes, workers, nextId, database, calls>>

\* A 'completed' listener that throws, throws ListenerError.
UpdateCompleted(l, thrower) == UpdateCompletedThrowing(l, thrower, ListenerError)

\* A 'completed' listener throws new Error(): an Error with an empty message.
UpdateCompletedBare(l, thrower) ==
  thrower # "none" /\ UpdateCompletedThrowing(l, thrower, Error(Null))

\* The update to completed is rejected by the driver.
UpdateCompletedFails(l) ==
  /\ loops[l].pc = "updC"
  /\ loops' = [loops EXCEPT ![l].pc = "updF", ![l].error = normalizeError(DriverError)]
  /\ UNCHANGED <<instances, queues, closes, workers, tables, nextId, hist, database, calls>>

\* The inner catch: updateJobStateById(id, failed, error.message), emit
\* 'failed' twice, release the client and test the running flag.  What is
\* thrown here leaves #processJob.
UpdateFailed(l, thrower) ==
  LET n == NameOf(l)
      id == loops[l].job
      error == loops[l].error
  IN
  /\ loops[l].pc = "updF"
  /\ IF id \notin Rows(n)
     THEN /\ loops' = [loops EXCEPT ![l].pc = "catch", ![l].job = NoJob, ![l].attempt = 0,
                                    ![l].error = JobNotFoundError(id)]
          /\ UNCHANGED <<tables, hist, database, calls>>
     ELSE /\ tables' = updateJobStateById(n, id, JobState.failed, error.message)
          /\ hist' = [hist EXCEPT ![n][id].events =
                        @ \o Emitted(thrower, "failed", JobState.failed, error.message)]
          /\ loops' = IF thrower = "none"
                      THEN [loops EXCEPT ![l].pc = EndOfCycle(l), ![l].job = NoJob,
                                         ![l].attempt = 0, ![l].error = NoError]
                      ELSE [loops EXCEPT ![l].pc = "catch", ![l].job = NoJob,
                                         ![l].attempt = 0, ![l].error = ListenerError]
  /\ UNCHANGED <<instances, queues, closes, workers, nextId, database, calls>>

\* The update to failed is rejected by the driver.
UpdateFailedFails(l) ==
  /\ loops[l].pc = "updF"
  /\ loops' = [loops EXCEPT ![l].pc = "catch", ![l].job = NoJob, ![l].attempt = 0,
                            ![l].error = DriverError]
  /\ UNCHANGED <<instances, queues, closes, workers, tables, nextId, hist, database, calls>>

\* Catch with a defect: no instanceof test, every error goes to the Queue's
\* 'error' channel.
CatchReportsAll(l, listenerThrows) ==
  LET thrown == listenerThrows \/ ~queues[QueueOf(l)].errorListener IN
  /\ loops[l].pc = "catch"
  /\ listenerThrows => queues[QueueOf(l)].errorListener
  /\ loops' = IF thrown
              THEN [loops EXCEPT ![l].pc = "rejected"]
              ELSE [loops EXCEPT ![l].pc = "sleepW", ![l].error = NoError, ![l].last = "error"]
  /\ UNCHANGED <<instances, queues, closes, workers, tables, nextId, hist, database, calls>>

\* Catch with a defect: no waitingInterval sleep after the emit.
CatchNoSleep(l, listenerThrows) ==
  LET waiting == loops[l].error.name = "AcquirableJobNotFoundError"
      thrown == \/ listenerThrows
                \/ ~waiting /\ ~queues[QueueOf(l)].errorListener
  IN
  /\ loops[l].pc = "catch"
  /\ listenerThrows => waiting \/ queues[QueueOf(l)].errorListener
  /\ loops' = IF thrown
              THEN [loops EXCEPT ![l].pc = "rejected"]
              ELSE [loops EXCEPT ![l].pc = EndOfCycle(l), ![l].error = NoError]
  /\ UNCHANGED <<instances, queues, closes, workers, tables, nextId, hist, database, calls>>

\* The catch of #processJobs: emit 'waiting' on the Worker, or 'error' on the
\* Queue.  EventEmitter.emit('error') throws when no listener is registered,
\* and any emit throws when a listener throws; nothing catches that.
Catch(l, listenerThrows) ==
  LET waiting == loops[l].error.name = "AcquirableJobNotFoundError"
      thrown == \/ listenerThrows
                \/ ~waiting /\ ~queues[QueueOf(l)].errorListener
  IN
  /\ loops[l].pc = "catch"
  /\ listenerThrows => waiting \/ queues[QueueOf(l)].errorListener
  /\ loops' = IF thrown
              THEN [loops EXCEPT ![l].pc = "rejected"]
              ELSE [loops EXCEPT ![l].pc = "sleepW", ![l].error = NoError,
                                 ![l].last = IF waiting THEN "waiting" ELSE "error"]
  /\ UNCHANGED <<instances, queues, closes, workers, tables, nextId, hist, database, calls>>

\* SleepWaiting with a defect: the loop returns after the waitingInterval
\* sleep.
SleepWaitingReturns(l) ==
  /\ loops[l].pc = "sleepW"
  /\ loops' = [loops EXCEPT ![l].pc = "resolved", ![l].last = "none"]
  /\ UNCHANGED <<instances, queues, closes, workers, tables, nextId, hist, database, calls>>

\* await setTimeout(waitingInterval), then the running flag is tested.
SleepWaiting(l) ==
  /\ loops[l].pc = "sleepW"
  /\ loops' = [loops EXCEPT ![l].pc = EndOfCycle(l), ![l].last = "none"]
  /\ UNCHANGED <<instances, queues, closes, workers, tables, nextId, hist, database, calls>>

\* queue.drain() / queue.empty(): one DELETE statement.  It waits for the row
\* locks of open transactions, so it takes effect when none of its rows is
\* locked.
Delete(q, states) ==
  LET n == queues[q].name IN
  /\ queues[q].status = "constructed"
  /\ queues[q].pool = "open"
  /\ {id \in Rows(n) : tables[n][id].state \in states} # {}
  /\ {id \in Locked(n) : tables[n][id].state \in states} = {}
  /\ tables' = deleteJobsByState(n, states)
  /\ UNCHANGED <<instances, queues, closes, workers, loops, nextId, hist, database, calls>>

Drain(q) == Delete(q, {JobState.waiting})

Empty(q) == Delete(q, {JobState.waiting, JobState.active, JobState.completed, JobState.failed})

\* ------------------------------------------ the Queue's calls, await by await
\* SUM(CASE WHEN state = ? THEN 1 ELSE 0 END) over the rows of the table:
\* NULL when the table has no row.
SUM(n, state) ==
  IF Rows(n) = {} THEN Null
  ELSE <<Cardinality({id \in Rows(n) : tables[n][id].state = state})>>

COALESCE(value, default) == IF value = Null THEN <<default>> ELSE value

\* PostgreSqlPoolClient.countJobsByState: COALESCE(SUM(...), 0)::int
PostgreSqlCountJobsByState(n, states) == [s \in states |-> COALESCE(SUM(n, s), 0)]

\* MySqlPoolClient.countJobsByState: CAST(SUM(...) AS SIGNED)
MySqlCountJobsByState(n, states) == [s \in states |-> SUM(n, s)]

countJobsByState(backend, n, states) ==
  IF backend = "postgresql" THEN PostgreSqlCountJobsByState(n, states)
  ELSE MySqlCountJobsByState(n, states)

Settled(c) == calls[c].pc \in {"idle", "settled"}

\* The Client of call c wraps a connection and release() was not called on it.
Held(c) == calls[c].conn # 0 /\ calls[c].released = 0

\* The SQL operation of call c was sent and its promise is pending.
InFlight(c) == calls[c].pc = "query"

SameConnection(c, d) ==
  /\ calls[c].conn # 0
  /\ calls[c].conn = calls[d].conn
  /\ calls[c].pool = "queue" /\ calls[d].pool = "queue"
  /\ calls[c].queue = calls[d].queue

\* A public method of Queue q is called: it awaits pool.getClient(name).
\* initialize() makes a pool of its own first.  The record of a settled call
\* is dropped for the new one.
Call(c, q, op, payload, priority, states) ==
  /\ Settled(c)
  /\ \A d \in CallIds : d < c => ~Settled(d)
  /\ queues[q].status = "constructed"
  /\ queues[q].pool = "open"
  /\ calls' = [calls EXCEPT ![c] =
       [NoCall EXCEPT !.op = op, !.queue = q, !.pc = "getClient",
                      !.pool = IF op = "initialize" THEN "temporary" ELSE "queue",
                      !.payload = payload, !.priority = priority, !.states = states]]
  /\ UNCHANGED <<instances, queues, closes, workers, loops, tables, nextId, hist, database>>

Adding(n) ==
  {c \in CallIds : calls[c].op = "add" /\ ~Settled(c) /\ queues[calls[c].queue].name = n}

InitializeCall(c, q) == Call(c, q, "initialize", << >>, Omitted, {})

AddCall(c, q, payload, priority) ==
  /\ queues[q].status = "constructed"
  /\ nextId[queues[q].name] + Cardinality(Adding(queues[q].name)) <= MaxJobs
  /\ Call(c, q, "add", payload, priority, {})

GetJobCountsCall(c, q, states) == Call(c, q, "getJobCounts", << >>, Omitted, states)

DrainCall(c, q) == Call(c, q, "drain", << >>, Omitted, {JobState.waiting})

EmptyCall(c, q) ==
  Call(c, q, "empty", << >>, Omitted,
       {JobState.waiting, JobState.active, JobState.completed, JobState.failed})

\* pool.getClient(name) resolves with a Client on a connection that is idle
\* in the pool: one that no Client was given, or whose Client was released.
CallGetClient(c, k) ==
  /\ calls[c].pc = "getClient"
  /\ \/ calls[c].pool = "temporary"
     \/ \A d \in CallIds \ {c} :
          ~(Held(d) /\ calls[d].pool = "queue" /\ calls[d].queue = calls[c].queue
                    /\ calls[d].conn = k)
  /\ calls' = [calls EXCEPT ![c].pc = "client", ![c].conn = k]
  /\ UNCHANGED <<instances, queues, closes, workers, loops, tables, nextId, hist, database>>

\* pool.getClient(name) rejects: no Client, nothing to release, and
\* initialize() leaves its pool open.
CallGetClientFails(c) ==
  /\ calls[c].pc = "getClient"
  /\ calls' = [calls EXCEPT ![c].pc = "settled", ![c].result.error = DriverError]
  /\ UNCHANGED <<instances, queues, closes, workers, loops, tables, nextId, hist, database>>

\* PoolClient.release()
release(call) == [call EXCEPT !.released = @ + 1]

\* add, getJobCounts, drain, empty: try { return client.operation(...) }
\* finally { client.release() }.  The operation sends its statement and
\* returns its promise, which is returned without await: the finally block
\* runs in the same continuation.
CallOperation(c) ==
  /\ calls[c].pc = "client"
  /\ calls[c].op # "initialize"
  /\ calls' = [calls EXCEPT ![c] =
       release([@ EXCEPT !.pc = "query",
                         !.after = {d \in CallIds \ {c} : InFlight(d) /\ SameConnection(c, d)}])]
  /\ UNCHANGED <<instances, queues, closes, workers, loops, tables, nextId, hist, database>>

\* A connection runs its statements in the order they were sent.
AtHead(c) == calls[c].pc = "query" /\ calls[c].after = {}

\* The promise of call c is settled: its arguments are not needed any more.
Settle(c, result) ==
  [d \in CallIds |->
     IF d = c THEN [calls[c] EXCEPT !.pc = "settled", !.result = result,
                                    !.payload = << >>, !.priority = Omitted]
     ELSE [calls[d] EXCEPT !.after = @ \ {c}]]

HasTable(n) == Object("table", n, NoQueue) \in database.schema

\* insertJob completes: the promise of add() is fulfilled with the new job.
AddCompletes(c, createdAt) ==
  LET n == queues[calls[c].queue].name IN
  /\ AtHead(c)
  /\ calls[c].op = "add"
  /\ HasTable(n)
  /\ tables' = insertJob(n, calls[c].payload, JobState.waiting,
                         Parameter(calls[c].priority, defaultJobPriority), createdAt)
  /\ nextId' = [nextId EXCEPT ![n] = @ + 1]
  /\ hist' = [hist EXCEPT ![n] = Append(@, [NoHistory EXCEPT !.added = calls[c].payload])]
  /\ calls' = Settle(c, [NoResult EXCEPT !.job = nextId[n]])
  /\ UNCHANGED <<instances, queues, closes, workers, loops, database>>

\* countJobsByState completes.
GetJobCountsCompletes(c) ==
  LET n == queues[calls[c].queue].name IN
  /\ AtHead(c)
  /\ calls[c].op = "getJobCounts"
  /\ HasTable(n)
  /\ calls' = Settle(c, [NoResult EXCEPT
                           !.counts = countJobsByState(database.backend, n, calls[c].states)])
  /\ UNCHANGED <<instances, queues, closes, workers, loops, tables, nextId, hist, database>>

\* deleteJobsByState completes: the DELETE waits for the row locks of open
\* transactions.
DeleteCompletes(c) ==
  LET n == queues[calls[c].queue].name IN
  /\ AtHead(c)
  /\ calls[c].op \in {"drain", "empty"}
  /\ HasTable(n)
  /\ {id \in Locked(n) : tables[n][id].state \in calls[c].states} = {}
  /\ tables' = deleteJobsByState(n, calls[c].states)
  /\ calls' = Settle(c, NoResult)
  /\ UNCHANGED <<instances, queues, closes, workers, loops, nextId, hist, database>>

\* The statement fails: the table does not exist, or the connection is lost.
OperationFails(c) ==
  LET n == queues[calls[c].queue].name IN
  /\ AtHead(c)
  /\ calls' = Settle(c, [NoResult EXCEPT !.error =
                IF HasTable(n) THEN DriverError
                ELSE DatabaseError(UndefinedTable(database.backend))])
  /\ UNCHANGED <<instances, queues, closes, workers, loops, tables, nextId, hist, database>>

\* initialize(): await client.initQueueData()
InitQueueData(c) ==
  LET r == initQueueData(database.backend, database.schema, queues[calls[c].queue].name) IN
  /\ calls[c].pc = "client"
  /\ calls[c].op = "initialize"
  /\ database' = [database EXCEPT !.schema = r.schema]
  /\ calls' = [calls EXCEPT ![c].pc = "finally", ![c].result.error = r.error]
  /\ UNCHANGED <<instances, queues, closes, workers, loops, tables, nextId, hist>>

\* initialize(): client.initQueueData() in which the database raises an
\* error with the given code for statement number at.
InitQueueDataRaises(c, at, code) ==
  LET backend == database.backend
      statements == Statements(backend, queues[calls[c].queue].name)
      r == executeAll(backend, database.schema,
                      [i \in DOMAIN statements |->
                         IF i = at THEN Raising(statements[i], code) ELSE statements[i]])
  IN
  /\ calls[c].pc = "client"
  /\ calls[c].op = "initialize"
  /\ at \in DOMAIN statements
  /\ code \in Raisable(backend, statements[at])
  /\ database' = [database EXCEPT !.schema = r.schema]
  /\ calls' = [calls EXCEPT ![c].pc = "finally", ![c].result.error = r.error]
  /\ UNCHANGED <<instances, queues, closes, workers, loops, tables, nextId, hist>>

\* initialize(): the connection is lost before the first statement.
InitQueueDataFails(c) ==
  /\ calls[c].pc = "client"
  /\ calls[c].op = "initialize"
  /\ calls' = [calls EXCEPT ![c].pc = "finally", ![c].result.error = DriverError]
  /\ UNCHANGED <<instances, queues, closes, workers, loops, tables, nextId, hist, database>>

\* initialize(): finally { client.release(); await pool.close() }
InitializeFinally(c) ==
  /\ calls[c].pc = "finally"
  /\ calls' = [calls EXCEPT ![c] =
       release([@ EXCEPT !.pc = "settled", !.poolCloses = @ + 1])]
  /\ UNCHANGED <<instances, queues, closes, workers, loops, tables, nextId, hist, database>>

\* -------------------------------------------------------------- Queue.close
\* pool.close() is pool.end() of the driver.  Ending a pool that was ended
\* before resolves with mysql2 and rejects with pg.
PoolCloseOutcomes(poolCloses) == IF poolCloses = 0 THEN {"resolves"} ELSE {"resolves", "rejects"}

\* worker.close() up to its first await: stop() clears the running flag and
\* awaits the loop, or returns at once when the Worker is not running.
WorkerCloseCall(w) ==
  [pc |-> "stop", loop |-> IF workers[w].running THEN workers[w].promise ELSE NoLoop]

\* queue.close() up to its first await: the flag is cleared and close() is
\* called on every attached Worker.
QueueClose(q, c) ==
  /\ queues[q].status = "constructed"
  /\ queues[q].handle = "returned"
  /\ closes[q][c].pc = "idle"
  /\ \A d \in CloseIds : d < c => closes[q][d].pc # "idle"
  /\ queues' = [queues EXCEPT ![q].running = FALSE]
  /\ workers' = [w \in WorkerIds |->
                   IF w \in queues[q].workers THEN [workers[w] EXCEPT !.running = FALSE]
                   ELSE workers[w]]
  /\ closes' = [closes EXCEPT ![q][c] =
                  [pc |-> "workers",
                   children |-> [w \in queues[q].workers |-> WorkerCloseCall(w)]]]
  /\ UNCHANGED <<instances, loops, tables, nextId, hist, database, calls>>

\* worker.close(): stop() has resolved (the awaited loop has ended, and the
\* promise field is cleared), and pool.close() is called.
WorkerCloseStopped(q, c, w, outcome) ==
  LET call == closes[q][c].children[w] IN
  /\ w \in DOMAIN closes[q][c].children
  /\ call.pc = "stop"
  /\ call.loop # NoLoop => loops[call.loop].pc = "resolved"
  /\ outcome \in PoolCloseOutcomes(workers[w].poolCloses)
  /\ workers' = [workers EXCEPT ![w].promise = IF call.loop # NoLoop THEN NoLoop ELSE @,
                                ![w].pool = "closed",
                                ![w].poolCloses = @ + 1]
  /\ closes' = IF outcome = "resolves"
               THEN [closes EXCEPT ![q][c].children[w].pc = "pool"]
               ELSE [closes EXCEPT ![q][c].children[w].pc = "rejected",
                                   ![q][c].pc = IF @ = "workers" THEN "rejected" ELSE @]
  /\ UNCHANGED <<instances, queues, loops, tables, nextId, hist, database, calls>>

\* worker.close(): the awaited loop has thrown, so stop() and close() reject,
\* and with them the Promise.all of queue.close().
WorkerCloseStopRejects(q, c, w) ==
  LET call == closes[q][c].children[w] IN
  /\ w \in DOMAIN closes[q][c].children
  /\ call.pc = "stop"
  /\ call.loop # NoLoop
  /\ loops[call.loop].pc = "rejected"
  /\ closes' = [closes EXCEPT ![q][c].children[w].pc = "rejected",
                              ![q][c].pc = IF @ = "workers" THEN "rejected" ELSE @]
  /\ UNCHANGED <<instances, queues, workers, loops, tables, nextId, hist, database, calls>>

\* worker.close(): the pool is closed; the Worker leaves the Queue's set.
WorkerClosePool(q, c, w) ==
  /\ w \in DOMAIN closes[q][c].children
  /\ closes[q][c].children[w].pc = "pool"
  /\ queues' = [queues EXCEPT ![workers[w].queue].workers = @ \ {w}]
  /\ closes' = [closes EXCEPT ![q][c].children[w].pc = "done"]
  /\ UNCHANGED <<instances, workers, loops, tables, nextId, hist, database, calls>>

\* queue.close(): every worker.close() has resolved; pool.close() is called.
QueueClosePool(q, c, outcome) ==
  /\ closes[q][c].pc = "workers"
  /\ \A w \in DOMAIN closes[q][c].children : closes[q][c].children[w].pc = "done"
  /\ outcome \in PoolCloseOutcomes(queues[q].poolCloses)
  /\ queues' = [queues EXCEPT ![q].pool = "closed", ![q].poolCloses = @ + 1]
  /\ closes' = [closes EXCEPT ![q][c].pc = IF outcome = "resolves" THEN "pool" ELSE "rejected"]
  /\ UNCHANGED <<instances, workers, loops, tables, nextId, hist, database, calls>>

\* queue.close(): the pool is closed; the name leaves the registry and
\* close() resolves.
QueueCloseDelete(q, c) ==
  /\ closes[q][c].pc = "pool"
  /\ instances' = [instances EXCEPT ![queues[q].name] = NoQueue]
  /\ queues' = [queues EXCEPT ![q].closed = TRUE]
  /\ closes' = [closes EXCEPT ![q][c].pc = "resolved"]
  /\ UNCHANGED <<workers, loops, tables, nextId, hist, database, calls>>

\* ------------------------------------------------------------------ create
\* The call slots that a new call can take.
FreeCalls ==
  {c \in CallIds : /\ Settled(c)
                   /\ calls[c].queue # NoQueue => queues[calls[c].queue].handle # "pending"}

\* static create(name, poolConfig, options) up to its first await: the
\* constructor, which throws on a registered name, then initialize() up to
\* its getClient.
Create(q, name, autostart) ==
  /\ queues[q].status = "absent"
  /\ IF instances[name] # NoQueue
     THEN /\ queues' = [queues EXCEPT ![q].status = "rejected",
                                      ![q].error = QueueExistsError(name)]
          /\ UNCHANGED <<instances, calls>>
     ELSE /\ FreeCalls # {}
          /\ instances' = [instances EXCEPT ![name] = q]
          /\ queues' = [queues EXCEPT ![q].status = "constructed",
                                      ![q].name = name,
                                      ![q].pool = "open",
                                      ![q].running = autostart,
                                      ![q].handle = "pending"]
          /\ calls' = [calls EXCEPT ![Min(FreeCalls)] =
               [NoCall EXCEPT !.op = "initialize", !.queue = q, !.pc = "getClient",
                              !.pool = "temporary"]]
  /\ UNCHANGED <<closes, workers, loops, tables, nextId, hist, database>>

\* create after await queue.initialize(): return queue, or the rejection of
\* initialize() leaves create and the object goes out of reach.
CreateReturns(c) ==
  LET q == calls[c].queue IN
  /\ calls[c].op = "initialize" /\ calls[c].pc = "settled"
  /\ queues[q].handle = "pending"
  /\ queues' = [queues EXCEPT ![q].handle =
       IF calls[c].result.error = NoError THEN "returned" ELSE "lost"]
  /\ UNCHANGED <<instances, closes, workers, loops, tables, nextId, hist, database, calls>>

\* ------------------------------------------------- start and stop calls
\* WorkerStart with a defect: start() does not look at the Queue.
WorkerStartIgnoresQueue(w) ==
  /\ workers[w].status = "created"
  /\ IF ~workers[w].running
     THEN /\ FreeLoops # {}
          /\ workers' = [workers EXCEPT ![w].running = TRUE, ![w].promise = Min(FreeLoops)]
          /\ loops' = [loops EXCEPT ![Min(FreeLoops)] = Launch(w)]
     ELSE UNCHANGED <<workers, loops>>
  /\ UNCHANGED <<instances, queues, closes, tables, nextId, hist, database, calls>>

\* worker.start(): nothing happens unless the Queue is running and the Worker
\* is not; otherwise the flag is set and a new #processJobs() is launched.
WorkerStart(w) ==
  /\ workers[w].status = "created"
  /\ IF queues[workers[w].queue].running /\ ~workers[w].running
     THEN /\ FreeLoops # {}
          /\ workers' = [workers EXCEPT ![w].running = TRUE, ![w].promise = Min(FreeLoops)]
          /\ loops' = [loops EXCEPT ![Min(FreeLoops)] = Launch(w)]
     ELSE UNCHANGED <<workers, loops>>
  /\ UNCHANGED <<instances, queues, closes, tables, nextId, hist, database, calls>>

\* worker.stop() up to its first await: a Worker that is not running returns
\* at once; otherwise the flag is cleared and #processJobsPromise is awaited.
StopCall(w) ==
  IF workers[w].running
  THEN [pc |-> "awaiting", loop |-> workers[w].promise]
  ELSE [pc |-> "resolved", loop |-> NoLoop]

WorkerStop(w) ==
  /\ workers[w].status = "created"
  /\ Len(workers[w].stops) < MaxStopCalls
  /\ workers' = [workers EXCEPT ![w].running = FALSE, ![w].stops = Append(@, StopCall(w))]
  /\ UNCHANGED <<instances, queues, closes, loops, tables, nextId, hist, database, calls>>

\* worker.stop(): the awaited promise has resolved; #processJobsPromise is
\* set to undefined and stop() resolves.
WorkerStopResolves(w, i) ==
  /\ i \in DOMAIN workers[w].stops
  /\ workers[w].stops[i].pc = "awaiting"
  /\ IF workers[w].stops[i].loop = NoLoop THEN TRUE
     ELSE loops[workers[w].stops[i].loop].pc = "resolved"
  /\ workers' = [workers EXCEPT ![w].promise = NoLoop, ![w].stops[i].pc = "resolved"]
  /\ UNCHANGED <<instances, queues, closes, loops, tables, nextId, hist, database, calls>>

\* worker.stop(): the awaited loop has thrown, and stop() rejects.
WorkerStopRejects(w, i) ==
  /\ i \in DOMAIN workers[w].stops
  /\ workers[w].stops[i].pc = "awaiting"
  /\ workers[w].stops[i].loop # NoLoop
  /\ loops[workers[w].stops[i].loop].pc = "rejected"
  /\ workers' = [workers EXCEPT ![w].stops[i].pc = "rejected"]
  /\ UNCHANGED <<instances, queues, closes, loops, tables, nextId, hist, database, calls>>

\* The Workers that worker.start() called from queue.start() launches, and
\* the task each of them gets.
ToStart(q) == {w \in queues[q].workers : ~workers[w].running}

Tasks(q) ==
  CHOOSE f \in [ToStart(q) -> FreeLoops] : \A v, w \in ToStart(q) : v # w => f[v] # f[w]

\* QueueStart with a defect: the flag is set and no Worker is started.
QueueStartFlagOnly(q) ==
  /\ queues[q].status = "constructed"
  /\ IF ~queues[q].running
     THEN queues' = [queues EXCEPT ![q].running = TRUE]
     ELSE UNCHANGED queues
  /\ UNCHANGED <<instances, closes, workers, loops, tables, nextId, hist, database, calls>>

\* QueueStart with a defect: start() without the test of the running flag.
QueueStartUnguarded(q) ==
  /\ queues[q].status = "constructed"
  /\ Cardinality(FreeLoops) >= Cardinality(ToStart(q))
  /\ queues' = [queues EXCEPT ![q].running = TRUE]
  /\ workers' = [w \in WorkerIds |->
                   IF w \in ToStart(q)
                   THEN [workers[w] EXCEPT !.running = TRUE, !.promise = Tasks(q)[w]]
                   ELSE workers[w]]
  /\ loops' = [l \in LoopIds |->
                 IF \E w \in ToStart(q) : Tasks(q)[w] = l
                 THEN Launch(CHOOSE w \in ToStart(q) : Tasks(q)[w] = l)
                 ELSE loops[l]]
  /\ UNCHANGED <<instances, closes, tables, nextId, hist, database, calls>>

\* queue.start(): on a Queue that is not running, the flag is set and start()
\* is called on every attached Worker, all before the first await.
QueueStart(q) ==
  /\ queues[q].status = "constructed"
  /\ IF ~queues[q].running
     THEN /\ Cardinality(FreeLoops) >= Cardinality(ToStart(q))
          /\ queues' = [queues EXCEPT ![q].running = TRUE]
          /\ workers' = [w \in WorkerIds |->
                           IF w \in ToStart(q)
                           THEN [workers[w] EXCEPT !.running = TRUE, !.promise = Tasks(q)[w]]
                           ELSE workers[w]]
          /\ loops' = [l \in LoopIds |->
                         IF \E w \in ToStart(q) : Tasks(q)[w] = l
                         THEN Launch(CHOOSE w \in ToStart(q) : Tasks(q)[w] = l)
                         ELSE loops[l]]
     ELSE UNCHANGED <<queues, workers, loops>>
  /\ UNCHANGED <<instances, closes, tables, nextId, hist, database, calls>>

\* queue.stop(): on a running Queue, the flag is cleared and stop() is called
\* on every attached Worker, all before the first await.
QueueStop(q) ==
  /\ queues[q].status = "constructed"
  /\ IF queues[q].running
     THEN /\ \A w \in queues[q].workers : Len(workers[w].stops) < MaxStopCalls
          /\ queues' = [queues EXCEPT ![q].running = FALSE]
          /\ workers' = [w \in WorkerIds |->
                           IF w \in queues[q].workers
                           THEN [workers[w] EXCEPT !.running = FALSE,
                                                   !.stops = Append(@, StopCall(w))]
                           ELSE workers[w]]
     ELSE UNCHANGED <<queues, workers>>
  /\ UNCHANGED <<instances, closes, loops, tables, nextId, hist, database, calls>>

\* ------------------------------------------------------------ specifications
\* The steps of a loop when every driver call succeeds and every listener
\* returns.
LoopStep(l) ==
  \/ SleepProcessing(l)
  \/ GetClient(l)
  \/ AcquireSelect(l)
  \/ AcquireUpdate(l)
  \/ AcquireCommit(l, "none")
  \/ \E ok \in BOOLEAN : Attempt(l, ok)
  \/ UpdateCompleted(l, "none")
  \/ UpdateFailed(l, "none")
  \/ Catch(l, FALSE)
  \/ SleepWaiting(l)

\* The steps in which a driver call fails or a listener throws.
FaultStep(l) ==
  \/ GetClientFails(l)
  \/ AcquireFails(l)
  \/ \E t \in {"worker", "queue"} : AcquireCommit(l, t)
  \/ \E t \in {"worker", "queue"} : UpdateCompleted(l, t)
  \/ UpdateCompletedFails(l)
  \/ \E t \in {"worker", "queue"} : UpdateFailed(l, t)
  \/ UpdateFailedFails(l)
  \/ Catch(l, TRUE)

\* Workers are created in the order w1, w2.
InOrder(w) == w = "w1" \/ workers["w1"].status = "created"

\* Spec: one Queue and one Worker, in an environment where every driver call
\* may fail and every listener may throw; jobs are added, drained and emptied
\* at any time.
Next ==
  \/ QueueNew("q1", "A", TRUE)
  \/ OnError("q1")
  \/ \E k \in 1..MaxRetries : WorkerNew("w1", "q1", TRUE, k)
  \/ \E p \in Priorities, t \in Times : Add("q1", p, t)
  \/ Drain("q1")
  \/ Empty("q1")
  \/ \E l \in LoopIds : LoopStep(l)
  \/ \E l \in LoopIds : FaultStep(l)

Spec == Init /\ [][Next]_vars

\* SpecWorkers: one Queue polled by two Workers; driver calls succeed and
\* listeners return.
NextWorkers ==
  \/ QueueNew("q1", "A", TRUE)
  \/ \E w \in WorkerIds, k \in 1..MaxRetries : InOrder(w) /\ WorkerNew(w, "q1", TRUE, k)
  \/ \E p \in Priorities, t \in Times : Add("q1", p, t)
  \/ \E l \in LoopIds : LoopStep(l)

SpecWorkers == Init /\ [][NextWorkers]_vars

\* SpecAcquire: SpecWorkers, with acquireJob transactions that may fail and
\* be rolled back at any statement.
NextAcquire ==
  \/ NextWorkers
  \/ workers["w1"].status = "absent" /\ OnError("q1")
  \/ \E l \in LoopIds : AcquireFails(l)

SpecAcquire == Init /\ [][NextAcquire]_vars

\* SpecFair: SpecWorkers under the scheduling of the event loop: a loop that
\* can take a step (its timer has fired, its driver call has been answered,
\* its processor has returned or thrown) eventually takes one.
SpecFair == SpecWorkers /\ \A l \in LoopIds : WF_vars(LoopStep(l))

\* SpecOrder: jobs are enqueued, then one Worker whose processor always
\* succeeds runs until the table holds no waiting job.
NextOrder ==
  \/ QueueNew("q1", "A", TRUE)
  \/ \E p \in Priorities, t \in Times : workers["w1"].status = "absent" /\ Add("q1", p, t)
  \/ \E k \in 1..MaxRetries : WorkerNew("w1", "q1", TRUE, k)
  \/ \E l \in LoopIds : SleepProcessing(l)
  \/ \E l \in LoopIds : GetClient(l)
  \/ \E l \in LoopIds : AcquireSelect(l)
  \/ \E l \in LoopIds : AcquireUpdate(l)
  \/ \E l \in LoopIds : AcquireCommit(l, "none")
  \/ \E l \in LoopIds : Attempt(l, TRUE)
  \/ \E l \in LoopIds : UpdateCompleted(l, "none")
  \/ \E l \in LoopIds : Catch(l, FALSE)
  \/ \E l \in LoopIds : SleepWaiting(l)

SpecOrder == Init /\ [][NextOrder]_vars

\* SpecRegistry: Queues are constructed under any name and closed, also
\* more than once and while an earlier close() is pending; a Worker is
\* attached to one of them and polls its (empty) table.
InOrderQ(q) ==
  \/ q = "q1"
  \/ q = "q2" /\ queues["q1"].status # "absent"
  \/ q = "q3" /\ queues["q2"].status # "absent"

\* The close() calls made so far, on all handles.
CloseCalls ==
  Cardinality({x \in QueueIds \X CloseIds : closes[x[1]][x[2]].pc # "idle"})

NextRegistry ==
  \/ \E q \in QueueIds, n \in Names, a \in BOOLEAN : InOrderQ(q) /\ QueueNew(q, n, a)
  \/ \E q \in QueueIds : queues[q].workers = {} /\ OnError(q)
  \/ \E q \in QueueIds, a \in BOOLEAN : WorkerNew("w1", q, a, MaxRetries)
  \/ \E q \in QueueIds, c \in CloseIds : CloseCalls < MaxCloseCalls /\ QueueClose(q, c)
  \/ \E q \in QueueIds, c \in CloseIds, w \in WorkerIds, o \in {"resolves", "rejects"} :
       WorkerCloseStopped(q, c, w, o)
  \/ \E q \in QueueIds, c \in CloseIds, w \in WorkerIds : WorkerCloseStopRejects(q, c, w)
  \/ \E q \in QueueIds, c \in CloseIds, w \in WorkerIds : WorkerClosePool(q, c, w)
  \/ \E q \in QueueIds, c \in CloseIds, o \in {"resolves", "rejects"} : QueueClosePool(q, c, o)
  \/ \E q \in QueueIds, c \in CloseIds : QueueCloseDelete(q, c)
  \/ \E l \in LoopIds : SleepProcessing(l)
  \/ \E l \in LoopIds : GetClient(l)
  \/ \E l \in LoopIds : GetClientClosed(l)
  \/ \E l \in LoopIds : AcquireSelect(l)
  \/ \E l \in LoopIds : Catch(l, FALSE)
  \/ \E l \in LoopIds : SleepWaiting(l)

SpecRegistry == Init /\ [][NextRegistry]_vars

\* SpecLifecycle: one Queue and two Workers, created with or without
\* autostart, started and stopped at any time, by calls on the Queue and by
\* calls on the Workers; the Workers poll an empty table.
NextLifecycle ==
  \/ \E a \in BOOLEAN : QueueNew("q1", "A", a)
  \/ \E w \in WorkerIds, a \in BOOLEAN : InOrder(w) /\ WorkerNew(w, "q1", a, MaxRetries)
  \/ \E w \in WorkerIds : WorkerStart(w)
  \/ \E w \in WorkerIds : WorkerStop(w)
  \/ \E w \in WorkerIds, i \in 1..MaxStopCalls : WorkerStopResolves(w, i)
  \/ QueueStart("q1")
  \/ QueueStop("q1")
  \/ \E l \in LoopIds : SleepProcessing(l)
  \/ \E l \in LoopIds : GetClient(l)
  \/ \E l \in LoopIds : AcquireSelect(l)
  \/ \E l \in LoopIds : Catch(l, FALSE)
  \/ \E l \in LoopIds : SleepWaiting(l)

SpecLifecycle == Init /\ [][NextLifecycle]_vars

\* SpecShutdown: one Queue and one Worker under every sequence of start()
\* and stop() calls on the Queue and on the Worker and one close() of the
\* Queue, the calls made while the close() is pending and after it included.
\* No 'error' listener is registered.
NextShutdown ==
  \/ \E a \in BOOLEAN : QueueNew("q1", "A", a)
  \/ \E a \in BOOLEAN : WorkerNew("w1", "q1", a, MaxRetries)
  \/ WorkerStart("w1")
  \/ WorkerStop("w1")
  \/ \E i \in 1..MaxStopCalls : WorkerStopResolves("w1", i)
  \/ \E i \in 1..MaxStopCalls : WorkerStopRejects("w1", i)
  \/ QueueStart("q1")
  \/ QueueStop("q1")
  \/ QueueClose("q1", 1)
  \/ \E o \in {"resolves", "rejects"} : WorkerCloseStopped("q1", 1, "w1", o)
  \/ WorkerClosePool("q1", 1, "w1")
  \/ \E o \in {"resolves", "rejects"} : QueueClosePool("q1", 1, o)
  \/ QueueCloseDelete("q1", 1)
  \/ \E l \in LoopIds : SleepProcessing(l)
  \/ \E l \in LoopIds : GetClient(l)
  \/ \E l \in LoopIds : GetClientClosed(l)
  \/ \E l \in LoopIds : AcquireSelect(l)
  \/ \E l \in LoopIds : Catch(l, FALSE)
  \/ \E l \in LoopIds : SleepWaiting(l)

SpecShutdown == Init /\ [][NextShutdown]_vars

\* SpecRetry: one Worker whose maxRetries option is any number from 0 to
\* MaxRetries runs retry() on a processor that returns or throws at every
\* call.
NextRetry ==
  \/ QueueNew("q1", "A", TRUE)
  \/ \E k \in 0..MaxRetries : WorkerNew("w1", "q1", TRUE, k)
  \/ \E p \in Priorities, t \in Times : Add("q1", p, t)
  \/ \E l \in LoopIds : LoopStep(l)

SpecRetry == Init /\ [][NextRetry]_vars

\* One Queue and its calls on either driver, starting on an empty database.
NextClients ==
  \/ QueueNew("q1", "A", FALSE)
  \/ \E c \in CallIds :
       \/ InitializeCall(c, "q1")
       \/ \E priority \in {Omitted} \cup {<<p>> : p \in Priorities} :
            AddCall(c, "q1", TaskPayload, priority)
       \/ \E states \in {{JobState.waiting}, {JobState.waiting, JobState.failed}} :
            GetJobCountsCall(c, "q1", states)
       \/ DrainCall(c, "q1")
       \/ EmptyCall(c, "q1")
       \/ \E k \in Connections : CallGetClient(c, k)
       \/ CallGetClientFails(c)
       \/ CallOperation(c)
       \/ \E t \in Times : AddCompletes(c, t)
       \/ GetJobCountsCompletes(c)
       \/ DeleteCompletes(c)
       \/ OperationFails(c)
       \/ InitQueueData(c)
       \/ InitQueueDataFails(c)
       \/ InitializeFinally(c)

SpecClients == (\E backend \in Backends : InitOn(backend, {})) /\ [][NextClients]_vars

\* SpecSchema: two Queues are constructed and initialised on an empty
\* database of either driver; a statement of initQueueData may meet an error.
MaxStatements == 5

NextSchema ==
  \/ QueueNew("q1", "A", FALSE)
  \/ QueueNew("q2", "B", FALSE)
  \/ \E c \in CallIds :
       \/ \E q \in {"q1", "q2"} : InitializeCall(c, q)
       \/ \E k \in Connections : CallGetClient(c, k)
       \/ CallGetClientFails(c)
       \/ InitQueueData(c)
       \/ \E at \in 1..MaxStatements :
            \E code \in Codes(database.backend) : InitQueueDataRaises(c, at, code)
       \/ InitializeFinally(c)

SpecSchema == (\E backend \in Backends : InitOn(backend, {})) /\ [][NextSchema]_vars

\* SpecCreate: Queues are made by create under any name; the database may be
\* unreachable or fail during initialize(); the Queues whose create has
\* returned are closed.
NextCreate ==
  \/ \E q \in QueueIds, n \in Names, a \in BOOLEAN : InOrderQ(q) /\ Create(q, n, a)
  \/ \E c \in CallIds :
       \/ \E k \in Connections : CallGetClient(c, k)
       \/ CallGetClientFails(c)
       \/ InitQueueData(c)
       \/ InitQueueDataFails(c)
       \/ InitializeFinally(c)
       \/ CreateReturns(c)
  \/ \E q \in QueueIds, c \in CloseIds : CloseCalls < MaxCloseCalls /\ QueueClose(q, c)
  \/ \E q \in QueueIds, c \in CloseIds, o \in {"resolves", "rejects"} : QueueClosePool(q, c, o)
  \/ \E q \in QueueIds, c \in CloseIds : QueueCloseDelete(q, c)

SpecCreate ==
  (\E backend \in Backends : InitOn(backend, Initialised(backend))) /\ [][NextCreate]_vars

\* SpecStop: one Worker processes jobs and stop() is called on it at any
\* time, also while an earlier stop() is pending; driver calls succeed and
\* listeners return.
NextStop ==
  \/ QueueNew("q1", "A", TRUE)
  \/ WorkerNew("w1", "q1", TRUE, 1)
  \/ \E p \in Priorities, t \in Times : Add("q1", p, t)
  \/ \E l \in LoopIds : LoopStep(l)
  \/ WorkerStop("w1")
  \/ \E i \in 1..MaxStopCalls : WorkerStopResolves("w1", i)

SpecStop == Init /\ [][NextStop]_vars

\* SpecJobs: one Queue and one Worker; jobs are added with any payload, with
\* or without a priority; driver calls succeed, and a 'completed' listener may
\* throw.
NextJobs ==
  \/ QueueNew("q1", "A", TRUE)
  \/ OnError("q1")
  \/ WorkerNew("w1", "q1", TRUE, 1)
  \/ \E payload \in Payloads, priority \in {Omitted, <<1>>}, t \in Times :
       AddPayload("q1", payload, priority, t)
  \/ \E l \in LoopIds : LoopStep(l)
  \/ \E l \in LoopIds, t \in {"worker", "queue"} : UpdateCompleted(l, t)
  \/ \E l \in LoopIds, t \in {"worker", "queue"} : UpdateCompletedBare(l, t)

SpecJobs == Init /\ [][NextJobs]_vars

\* ------------------------------------------------------------------ claims
Terminal == {JobState.completed, JobState.failed}

JobIds(n) == DOMAIN hist[n]

EventsOf(n, id, on, event) ==
  {i \in DOMAIN hist[n][id].events :
     hist[n][id].events[i].on = on /\ hist[n][id].events[i].event = event}

\* C1: no job is returned by more than one acquireJob call, and 'activated'
\* is emitted at most once for it on the Worker and on the Queue.
C1_ActivatedAtMostOnce ==
  \A n \in Names : \A id \in JobIds(n) :
    /\ hist[n][id].acquired <= 1
    /\ Cardinality(EventsOf(n, id, "worker", "activated")) <= 1
    /\ Cardinality(EventsOf(n, id, "queue", "activated")) <= 1

\* C1 witness: two Workers hold two different jobs, each acquired once.
C1_Witness ==
  /\ loops[1].pc = "attempt" /\ loops[2].pc = "attempt"
  /\ loops[1].job # loops[2].job
  /\ hist["A"][loops[1].job].acquired = 1
  /\ hist["A"][loops[2].job].acquired = 1

\* C2: a job changes state only waiting -> active, active -> completed or
\* active -> failed, whatever the processor, the driver and the listeners do.
C2_Transition(from, to) ==
  \/ from = to
  \/ from = JobState.waiting /\ to = JobState.active
  \/ from = JobState.active /\ to \in Terminal

C2_JobStateMachine ==
  [][\A n \in Names : \A id \in Rows(n) :
       id \in DOMAIN tables'[n] => C2_Transition(tables[n][id].state, tables'[n][id].state)]_vars

\* compareJobs of the test utilities: negative when a comes before b.
compareJobs(a, b) ==
  IF a.priority # b.priority THEN b.priority - a.priority
  ELSE IF a.createdAt # b.createdAt THEN a.createdAt - b.createdAt
  ELSE a.id - b.id

\* Array.prototype.sort with a comparator, as an insertion sort.
RECURSIVE insert(_, _)
insert(x, s) ==
  IF s = << >> THEN <<x>>
  ELSE IF compareJobs(x, Head(s)) < 0 THEN <<x>> \o s
  ELSE <<Head(s)>> \o insert(x, Tail(s))

RECURSIVE sort(_)
sort(s) == IF s = << >> THEN << >> ELSE insert(Head(s), sort(Tail(s)))

\* The jobs returned by the add() calls, in the order of the calls.
EnqueuedJobs(n) ==
  [id \in 1..Len(hist[n]) |->
     [id |-> id, priority |-> tables[n][id].priority, createdAt |-> tables[n][id].createdAt]]

IsPrefix(s, t) == Len(s) <= Len(t) /\ SubSeq(t, 1, Len(s)) = s

\* C3: with one Worker whose processor always succeeds, started after the
\* enqueues, the 'completed' events come in the order of the enqueued jobs
\* sorted by compareJobs (priority descending, createdAt ascending, id
\* ascending): always a prefix of it, and all of it once no job is left.
C3_CompletionOrder ==
  LET sorted == sort(EnqueuedJobs("A"))
      expected == [i \in 1..Len(sorted) |-> sorted[i].id]
  IN  /\ IsPrefix(completedJobs("A"), expected)
      /\ (\A id \in Rows("A") : tables["A"][id].state = JobState.completed)
           => completedJobs("A") = expected

\* C3 witness: every enqueued job is completed, and not in the order of the
\* enqueues.
C3_Witness ==
  /\ Len(hist["A"]) = MaxJobs
  /\ \A id \in Rows("A") : tables["A"][id].state = JobState.completed
  /\ completedJobs("A")[1] # 1

\* C4: with two Workers running on a Queue, under fair scheduling and with
\* processors that terminate, every job of the table eventually is completed
\* or failed.
C4_BothRunning == \A w \in WorkerIds : workers[w].running

C4_IsTerminal(id) == id \in Rows("A") /\ tables["A"][id].state \in Terminal

C5_LoopNeverDies ==
  [][\A l \in LoopIds : loops[l].pc = "catch" => loops'[l].pc \in {"catch", "sleepW"}]_vars

\* The processing of job id of queue n is over: it was acquired, and no loop
\* holds it any more.
Finished(n, id) ==
  /\ hist[n][id].acquired > 0
  /\ \A l \in LoopIds : loops[l].pc # "free" /\ NameOf(l) = n => loops[l].job # id

ExhaustedMessage(k) == <<"Function failed after ">> \o String(k) \o <<" retries: ", "boom">>

EmittedOnce(n, id, on, event, state, message) ==
  /\ Cardinality(EventsOf(n, id, on, event)) = 1
  /\ \A i \in EventsOf(n, id, on, event) :
       hist[n][id].events[i] = Ev(on, event, state, message)

Live(q) == queues[q].status = "constructed" /\ ~queues[q].closed

\* C8: at most one live Queue per name, whatever Queues are constructed and
\* closed, close() being called more than once on a handle included.
C8_OneLivePerName ==
  \A p \in QueueIds, q \in QueueIds :
    p # q /\ Live(p) /\ Live(q) => queues[p].name # queues[q].name

\* C9: a construction succeeds only under a name that is not registered;
\* under a registered name it fails with "Queue with name '<name>' already
\* exists", the registry, the other Queues, the Workers, the loops and the
\* pending close() calls stay as they are, and the rejected instance has no
\* pool, no Worker and is not running.
C9_Constructed(q) == queues[q].status = "absent" /\ queues'[q].status = "constructed"

C9_Rejected(q) == queues[q].status = "absent" /\ queues'[q].status = "rejected"

C9_DuplicateRejected ==
  [][\A q \in QueueIds :
       /\ C9_Constructed(q) => instances[queues'[q].name] = NoQueue
       /\ C9_Rejected(q) =>
            /\ \E n \in Names :
                 /\ instances[n] # NoQueue
                 /\ Contains(queues'[q].error.message,
                             <<"Queue with name '", n, "' already exists">>)
            /\ instances' = instances
            /\ \A p \in QueueIds \ {q} : queues'[p] = queues[p]
            /\ <<workers', loops', closes'>> = <<workers, loops, closes>>
            /\ ~queues'[q].running
            /\ queues'[q].pool = "none"
            /\ queues'[q].workers = {}]_vars

\* C9 witness: a construction was rejected while the live Queue that holds
\* the name is running with a Worker attached.
C9_Witness ==
  \E p \in QueueIds, q \in QueueIds :
    /\ queues[q].status = "rejected"
    /\ Live(p) /\ instances[queues[p].name] = p
    /\ queues[p].running /\ queues[p].workers # {}
    /\ queues[q].error = QueueExistsError(queues[p].name)

\* The loops of Worker w that have not ended.
LiveLoops(w) ==
  {l \in LoopIds : loops[l].worker = w /\ loops[l].pc \notin {"free", "resolved", "rejected"}}

\* C10: when a close() resolves, the Queue is not running; every Worker that
\* was attached when close() was called is stopped (not running, and no loop
\* of it is alive), has its pool closed and is out of the Queue's set; the
\* Queue's pool is closed; and the name is not registered, which is what the
\* next construction under that name tests.
C10_Resolves(q, c) == closes[q][c].pc # "resolved" /\ closes'[q][c].pc = "resolved"

C10_CloseReleases ==
  [][\A q \in QueueIds, c \in CloseIds :
       C10_Resolves(q, c) =>
         /\ ~queues'[q].running
         /\ queues'[q].pool = "closed"
         /\ instances'[queues'[q].name] = NoQueue
         /\ \A w \in DOMAIN closes[q][c].children :
              /\ ~workers'[w].running
              /\ LiveLoops(w)' = {}
              /\ workers'[w].pool = "closed"
              /\ w \notin queues'[q].workers]_vars

\* C11: a Worker never has two polling loops alive at once, whatever start()
\* and stop() calls are made on it and on its Queue, a start() while an
\* earlier stop() still awaits the old loop included.
C11_OneLoopPerWorker ==
  \A w \in WorkerIds : Cardinality(LiveLoops(w)) <= 1

\* C12: in the step in which a stop() call on a Worker resolves, the Worker
\* is not running and no loop of it is alive (so it acquires nothing and
\* emits nothing from then on).
C12_StopResolves(w, i) ==
  /\ i \in DOMAIN workers'[w].stops
  /\ workers'[w].stops[i].pc = "resolved"
  /\ IF i \in DOMAIN workers[w].stops THEN workers[w].stops[i].pc # "resolved" ELSE TRUE

C12_StoppedWhenStopResolves ==
  [][\A w \in WorkerIds, i \in 1..MaxStopCalls :
       C12_StopResolves(w, i) => ~workers'[w].running /\ LiveLoops(w)' = {}]_vars

\* C13: start() on a Worker whose Queue is not running changes nothing, and
\* a Worker constructed on a Queue that is not running is not running and
\* has no loop, whatever its autostart option.
C13_ConstructedOnStopped(w) ==
  /\ workers[w].status = "absent"
  /\ workers'[w].status = "created"
  /\ ~queues[workers'[w].queue].running

C13_NoStartOnStoppedQueue ==
  [][\A w \in WorkerIds :
       /\ WorkerStart(w) /\ ~queues[workers[w].queue].running => UNCHANGED vars
       /\ C13_ConstructedOnStopped(w) =>
            /\ ~workers'[w].running
            /\ workers'[w].promise = NoLoop
            /\ loops' = loops]_vars

\* C13 witness: a Worker exists on a Queue that is not running and was never
\* started: nothing was launched for it.
C13_Witness ==
  \E w \in WorkerIds :
    /\ workers[w].status = "created"
    /\ queues[workers[w].queue].status = "constructed"
    /\ ~queues[workers[w].queue].running
    /\ ~workers[w].running /\ workers[w].promise = NoLoop /\ workers[w].stops = << >>
    /\ \A l \in LoopIds : loops[l].pc = "free"

\* C14: start() on a Queue that is not running makes the Queue running and
\* every attached Worker running, each with a live loop.
C14_QueueStartStartsAll ==
  [][\A q \in QueueIds :
       QueueStart(q) /\ ~queues[q].running =>
         /\ queues'[q].running
         /\ \A w \in queues[q].workers : workers'[w].running /\ LiveLoops(w)' # {}]_vars

\* C14 witness: the Queue and its two Workers are running, one of the
\* Workers after a stop() that has resolved.
C14_Witness ==
  /\ queues["q1"].running
  /\ queues["q1"].workers = WorkerIds
  /\ \A w \in WorkerIds : workers[w].running /\ LiveLoops(w) # {}
  /\ \E i \in DOMAIN workers["w1"].stops : workers["w1"].stops[i].pc = "resolved"
  /\ workers["w2"].stops = << >>

\* C16: stop() on a Queue that is not running and start() on a Queue that is
\* running change nothing; stop() on a Worker that is not running returns at
\* once and changes no flag, no loop, no other Worker and no Queue.
C16_EarlyReturn(w) ==
  workers' = [workers EXCEPT ![w].stops = Append(@, [pc |-> "resolved", loop |-> NoLoop])]

C16_Idempotent ==
  [][/\ \A q \in QueueIds :
          /\ QueueStop(q) /\ ~queues[q].running => UNCHANGED vars
          /\ QueueStart(q) /\ queues[q].running => UNCHANGED vars
     /\ \A w \in WorkerIds :
          WorkerStop(w) /\ ~workers[w].running =>
            /\ C16_EarlyReturn(w)
            /\ UNCHANGED <<instances, queues, closes, loops, tables, nextId, hist, database, calls>>]_vars

\* C16 witness: a Worker was stopped, the stop() resolved, and stop() was
\* called on it again; its Queue is running, with another Worker that is not.
C16_Witness ==
  \E w \in WorkerIds, v \in WorkerIds :
    /\ Len(workers[w].stops) = 2
    /\ workers[w].stops[1].pc = "resolved" /\ workers[w].stops[1].loop # NoLoop
    /\ workers[w].stops[2] = [pc |-> "resolved", loop |-> NoLoop]
    /\ ~workers[w].running /\ LiveLoops(w) = {}
    /\ queues[workers[w].queue].running
    /\ v # w /\ workers[v].status = "created" /\ ~workers[v].running

\* C15: in every state a Worker that is running has a Queue that is running.
C15_WorkerWithinQueue ==
  \A w \in WorkerIds : workers[w].running => queues[workers[w].queue].running

\* The names of the events the Worker emitted for job id of queue n, in order.
WorkerEvents(n, id) ==
  LET e == SelectSeq(hist[n][id].events, LAMBDA x : x.on = "worker")
  IN  [i \in 1..Len(e) |-> e[i].event]

\* The Worker emits 'activated' for job id of queue n in this step.
Activates(n, id) ==
  /\ Len(WorkerEvents(n, id)') = Len(WorkerEvents(n, id)) + 1
  /\ WorkerEvents(n, id)'[Len(WorkerEvents(n, id)')] = "activated"

\* C17: the events a Worker emits for a job are 'activated' followed by one
\* terminal event, 'completed' or 'failed': no terminal event comes without
\* or before 'activated' and none comes twice; and when a Worker emits
\* 'activated' for a job, every job it activated before has its terminal
\* event.
C17_ActivatedThenOneTerminal ==
  [][\A n \in Names : \A id \in JobIds(n) :
       /\ WorkerEvents(n, id)' \in {<< >>, <<"activated">>, <<"activated", "completed">>,
                                    <<"activated", "failed">>}
       /\ Activates(n, id) =>
            \A other \in JobIds(n) \ {id} :
              hist[n][other].worker = hist'[n][id].worker
                => Len(WorkerEvents(n, other)) = 2]_vars

\* C18: AcquirableJobNotFoundError arises in a loop only from the SELECT of
\* its own acquireJob finding no acquirable row, and such a SELECT raises
\* nothing else; the catch block answers that error with 'waiting' on the
\* Worker, never with 'error' on the Queue, and answers every other error
\* without 'waiting'.
C18_NotFound(l) == loops[l].error = AcquirableJobNotFoundError

C18_WaitingIffNotFound ==
  [][\A l \in LoopIds :
       /\ ~C18_NotFound(l) /\ C18_NotFound(l)' =>
            loops[l].pc = "select" /\ Acquirable(NameOf(l)) = {}
       /\ AcquireSelect(l) /\ Acquirable(NameOf(l)) = {} => C18_NotFound(l)'
       /\ loops[l].pc = "catch" /\ loops'[l].pc # "catch" =>
            /\ C18_NotFound(l) => loops'[l].last # "error"
            /\ ~C18_NotFound(l) => loops'[l].last # "waiting"
            /\ loops'[l].pc = "sleepW" => loops'[l].last = IF C18_NotFound(l) THEN "waiting" ELSE "error"]_vars

\* C18 witness: a Worker has emitted 'waiting' after a poll of a table that
\* holds jobs, none of them waiting, and no 'error' listener is registered.
C18_Witness ==
  \E l \in LoopIds :
    /\ loops[l].pc = "sleepW"
    /\ loops[l].last = "waiting"
    /\ Rows(NameOf(l)) # {}
    /\ ~queues[QueueOf(l)].errorListener

\* C19: retry calls the function at most maxRetries times, for every
\* maxRetries from 0 on; when a call returns, retry resolves (the job is
\* completed after that call); when every call throws, it rejects after
\* exactly maxRetries calls with "Function failed after <maxRetries>
\* retries: <cause>".
C19_MaxAttempts(n, id) == workers[hist[n][id].worker].maxRetries

C19_AtMostMaxAttempts ==
  \A n \in Names : \A id \in JobIds(n) :
    hist[n][id].worker # "none" =>
      /\ hist[n][id].calls <= C19_MaxAttempts(n, id)
      /\ \A l \in LoopIds :
           loops[l].pc = "updF" /\ loops[l].job = id /\ NameOf(l) = n =>
             /\ hist[n][id].calls = C19_MaxAttempts(n, id)
             /\ loops[l].error = MaxRetriesError(C19_MaxAttempts(n, id), ProcessorError)
      /\ \A l \in LoopIds :
           loops[l].pc = "updC" /\ loops[l].job = id /\ NameOf(l) = n => hist[n][id].ok

\* C20: drain() removes the rows in state waiting and leaves every other row
\* as it is; empty() leaves no row in the table, so every count is 0.  No
\* other table changes.
C20_Kept(n) == {id \in Rows(n) : tables[n][id].state # JobState.waiting}

C20_DrainAndEmpty ==
  [][\A q \in QueueIds :
       /\ Drain(q) =>
            /\ DOMAIN tables'[queues[q].name] = C20_Kept(queues[q].name)
            /\ \A id \in C20_Kept(queues[q].name) :
                 tables'[queues[q].name][id] = tables[queues[q].name][id]
            /\ \A m \in Names \ {queues[q].name} : tables'[m] = tables[m]
       /\ Empty(q) =>
            /\ DOMAIN tables'[queues[q].name] = {}
            /\ \A m \in Names \ {queues[q].name} : tables'[m] = tables[m]]_vars

\* C20 witness: of two jobs, the first is in the table, completed, and the
\* second was removed without ever having been acquired: a drain() deleted
\* it and left the completed job.
C20_Witness ==
  /\ Len(hist["A"]) = 2
  /\ Rows("A") = {1}
  /\ tables["A"][1].state = JobState.completed
  /\ hist["A"][2].acquired = 0

InState(n, state) == {id \in Rows(n) : tables[n][id].state = state}

\* C21: add(payload, priority) inserts exactly one new job: its id was never
\* used in the queue, its state is waiting and its priority is the one given,
\* or 5 when none was given; every other job is left as it was, so the number
\* of waiting jobs grows by exactly one; the promise of add() is fulfilled
\* with the new job.
C21_AddInsertsOneWaitingJob ==
  [][\A c \in CallIds : \A t \in Times :
       AddCompletes(c, t) =>
         LET n == queues[calls[c].queue].name
             id == calls'[c].result.job
         IN
         /\ DOMAIN tables'[n] = Rows(n) \cup {id}
         /\ id \notin Rows(n)
         /\ id \notin DOMAIN hist[n]
         /\ tables'[n][id].state = JobState.waiting
         /\ tables'[n][id].priority =
              IF calls[c].priority = Omitted THEN 5 ELSE calls[c].priority[1]
         /\ tables'[n][id].errorMessage = Null
         /\ \A j \in Rows(n) : tables'[n][j] = tables[n][j]
         /\ \A m \in Names \ {n} : tables'[m] = tables[m]
         /\ Cardinality({j \in DOMAIN tables'[n] : tables'[n][j].state = JobState.waiting})
              = Cardinality(InState(n, JobState.waiting)) + 1]_vars

\* add(payload) was called on a table that held a job already, and returned
\* a waiting job of priority 5.
C21_Witness ==
  \E c \in CallIds :
    /\ calls[c].op = "add"
    /\ calls[c].pc = "settled"
    /\ calls[c].result.job \in Rows("A")
    /\ calls[c].result.job > 1
    /\ tables["A"][calls[c].result.job].priority = 5
    /\ tables["A"][calls[c].result.job].state = JobState.waiting

\* C22: getJobCounts returns, for every requested state, the number of jobs
\* in that state, which is the number 0 when no row is in that state, also
\* on a table without rows and with either driver.
C22_CountsAreNumbers ==
  [][\A c \in CallIds :
       GetJobCountsCompletes(c) =>
         \A state \in calls[c].states :
           calls'[c].result.counts[state] =
             <<Cardinality(InState(queues[calls[c].queue].name, state))>>]_vars

\* The loop is inside try { await this.#processJob(client) } finally
\* { client.release() }: it has a Client that was not released.
Holding(l) == loops[l].pc \in {"select", "update", "commit", "attempt", "updC", "updF"}

\* C23: a Client is released exactly once on every path and never twice, a
\* Worker holds at most one Client at a time, and none while it sleeps.
C23_ClientsReleasedOnce ==
  /\ \A c \in CallIds :
       /\ calls[c].released <= 1
       /\ calls[c].pc \in {"client", "finally"} => calls[c].released = 0
       /\ calls[c].pc \in {"query", "settled"} /\ calls[c].conn # 0 => calls[c].released = 1
  /\ \A w \in WorkerIds :
       Cardinality({l \in LoopIds : loops[l].worker = w /\ Holding(l)}) <= 1
  /\ \A l \in LoopIds : loops[l].pc \in {"sleepP", "sleepW"} => ~Holding(l)

\* C24: a connection is owned by one Client at a time: the Client of add,
\* getJobCounts, drain and empty is released only when its SQL operation has
\* completed, so no Client is given a connection on which the operation of
\* another Client is in flight.
C24_ReleasedAfterOperation ==
  /\ \A c \in CallIds : InFlight(c) => Held(c)
  /\ \A c, d \in CallIds : c # d /\ Held(c) /\ InFlight(d) => ~SameConnection(c, d)

\* C25: close() is called at most once on every Pool: the pool of a Queue,
\* the private pool of a Worker and the temporary pool of initialize().
C25_PoolClosedAtMostOnce ==
  /\ \A q \in QueueIds : queues[q].poolCloses <= 1
  /\ \A w \in WorkerIds : workers[w].poolCloses <= 1
  /\ \A c \in CallIds : calls[c].poolCloses <= 1

\* C26: the errorMessage of a job is non-empty if and only if the job is in
\* state failed.
C26_ErrorMessageIffFailed ==
  \A n \in Names : \A id \in Rows(n) :
    tables[n][id].errorMessage # Null <=> tables[n][id].state = JobState.failed

\* C27, as stated: a job keeps its priority, createdAt and payload as long as
\* its row exists, and its payload is the payload that was passed to add().
\* The job handed to the processor and carried by the events is the row
\* that acquireJob and updateJobStateById return.
C27_PayloadAsPassed ==
  [][\A n \in Names : \A id \in DOMAIN tables'[n] :
       /\ tables'[n][id].payload = hist'[n][id].added
       /\ id \in Rows(n) =>
            /\ tables'[n][id].priority = tables[n][id].priority
            /\ tables'[n][id].createdAt = tables[n][id].createdAt
            /\ tables'[n][id].payload = tables[n][id].payload]_vars

\* C27, amended: a job keeps its priority, createdAt and payload as long as
\* its row exists, and its payload is the JSON round trip,
\* JSON.parse(JSON.stringify(payload)), of the payload that was passed to
\* add().
C27_PayloadAfterRoundTrip ==
  [][\A n \in Names : \A id \in DOMAIN tables'[n] :
       /\ tables'[n][id].payload = parse(stringify(hist'[n][id].added))
       /\ id \in Rows(n) =>
            /\ tables'[n][id].priority = tables[n][id].priority
            /\ tables'[n][id].createdAt = tables[n][id].createdAt
            /\ tables'[n][id].payload = tables[n][id].payload]_vars

\* A job added with {task: NaN} and priority 1 was processed to completion:
\* its payload is {task: null}.
C27_Witness ==
  \E id \in Rows("A") :
    /\ tables["A"][id].state = JobState.completed
    /\ tables["A"][id].priority = 1
    /\ hist["A"][id].added = <<Property("task", "NaN")>>
    /\ tables["A"][id].payload = <<Property("task", "null")>>
    /\ hist["A"][id].calls > 0

\* The schema of an initialised queue n: the state enum, the table, the
\* dequeue index and what maintains updatedAt (in MySQL the enum and the ON
\* UPDATE clause are part of the table).
C28_Schema(backend, n) ==
  IF backend = "postgresql"
  THEN {Object("type", "job_state", NoQueue), Object("table", n, NoQueue),
        Object("index", "idx_queue_priority_order", n),
        Object("function", "update_modified_column", NoQueue),
        Object("trigger", "update_modified_column_trigger", n)}
  ELSE {Object("table", n, NoQueue), Object("index", "idx_queue_priority_order", n)}

\* C28: initQueueData run on a queue that is initialised already raises no
\* exception and leaves the schema and every job row as they are.
C28_InitQueueDataIdempotent ==
  [][\A c \in CallIds :
       LET n == queues[calls[c].queue].name IN
       InitQueueData(c) /\ C28_Schema(database.backend, n) \subseteq database.schema
         => /\ calls'[c].result.error = NoError
            /\ database' = database
            /\ tables' = tables]_vars

\* Two runs of initialize() on a queue that was initialised and holds a job
\* have both returned without an exception.
C28_Witness ==
  /\ \A c \in CallIds :
       calls[c].op = "initialize" /\ calls[c].pc = "settled" /\ calls[c].result.error = NoError
  /\ Rows("A") # {}
  /\ database.schema = C28_Schema(database.backend, "A")

\* Job a comes before job b in (priority descending, createdAt ascending, id
\* ascending) order.
C29_Before(n, a, b) ==
  \/ tables[n][a].priority > tables[n][b].priority
  \/ /\ tables[n][a].priority = tables[n][b].priority
     /\ tables[n][a].createdAt < tables[n][b].createdAt
  \/ /\ tables[n][a].priority = tables[n][b].priority
     /\ tables[n][a].createdAt = tables[n][b].createdAt
     /\ a < b

\* The waiting rows of table n that no open transaction other than that of
\* loop l has locked.
C29_Eligible(n, l) ==
  {id \in Rows(n) :
     /\ tables[n][id].state = JobState.waiting
     /\ \A k \in LoopIds \ {l} :
          ~(loops[k].pc \in {"update", "commit"} /\ NameOf(k) = n /\ loops[k].job = id)}

\* C29: the job that acquireJob selects is the first, in (priority
\* descending, createdAt ascending, id ascending) order, of the waiting rows
\* not locked by another open transaction at the time of the selection and
\* the selection changes no row; the commit of a successful acquireJob
\* changes that job from waiting to active and changes nothing else.
C29_AcquiresFirstInOrder ==
  [][\A l \in LoopIds :
       LET n == NameOf(l) IN
       /\ AcquireSelect(l) /\ loops'[l].pc = "update" =>
            /\ loops'[l].job \in C29_Eligible(n, l)
            /\ \A b \in C29_Eligible(n, l) \ {loops'[l].job} : C29_Before(n, loops'[l].job, b)
            /\ tables' = tables
       /\ (\E t \in Throwers : AcquireCommit(l, t)) =>
            /\ loops[l].job \in Rows(n)
            /\ tables[n][loops[l].job].state = JobState.waiting
            /\ tables'[n] = [tables[n] EXCEPT ![loops[l].job].state = JobState.active]
            /\ \A m \in Names \ {n} : tables'[m] = tables[m]]_vars

\* A Worker has acquired job 2 while job 1, added before it with a lower
\* priority, is waiting.
C29_Witness ==
  \E l \in LoopIds :
    /\ loops[l].pc = "attempt"
    /\ loops[l].job = 2
    /\ Rows("A") = {1, 2}
    /\ tables["A"][1].state = JobState.waiting
    /\ tables["A"][2].state = JobState.active
    /\ tables["A"][1].priority < tables["A"][2].priority

\* Loop l has an open acquireJob transaction that holds the lock of a row.
C30_Open(l) == loops[l].pc \in {"update", "commit"}

C30_Waiting(n) == {id \in Rows(n) : tables[n][id].state = JobState.waiting}

\* The first row of S in the dequeue order.
C30_First(n, S) == CHOOSE a \in S : \A b \in S \ {a} : C29_Before(n, a, b)

\* C30: while another acquireJob transaction is open, no statement of an
\* acquireJob transaction waits for it; with at least two waiting jobs, the
\* SELECT of the later transaction skips the row locked by the earlier one
\* and returns the first of the other waiting rows, so that, the earlier one
\* holding the first waiting row, the two hold the first two rows of the
\* dequeue order.
C30_NeitherBlocks ==
  /\ [](\A l, k \in LoopIds :
          /\ l # k
          /\ C30_Open(k)
          /\ loops[l].pc \in {"select", "update", "commit"}
          /\ NameOf(k) = NameOf(l)
          =>
            /\ loops[l].pc = "select" => ENABLED AcquireSelect(l)
            /\ loops[l].pc = "update" => ENABLED AcquireUpdate(l)
            /\ loops[l].pc = "commit" => ENABLED AcquireCommit(l, "none"))
  /\ [][\A l, k \in LoopIds :
          LET n == NameOf(l) IN
          /\ l # k
          /\ C30_Open(k)
          /\ AcquireSelect(l)
          /\ NameOf(k) = n
          /\ Cardinality(C30_Waiting(n)) >= 2
          => /\ loops'[l].pc = "update"
             /\ loops'[l].job # loops[k].job
             /\ loops'[l].job = C30_First(n, C30_Waiting(n) \ {loops[k].job})
             /\ loops[k].job = C30_First(n, C30_Waiting(n)) =>
                  \A b \in C30_Waiting(n) \ {loops[k].job, loops'[l].job} :
                    C29_Before(n, loops[k].job, b) /\ C29_Before(n, loops'[l].job, b)]_vars

\* Two acquireJob transactions are open at the same time, each on a waiting
\* row of its own.
C30_Witness ==
  /\ C30_Open(1) /\ C30_Open(2)
  /\ loops[1].job # loops[2].job
  /\ {loops[1].job, loops[2].job} \subseteq C30_Waiting("A")

\* C31: acquireJob on a queue with no acquirable waiting job rolls back,
\* throws AcquirableJobNotFoundError and changes no job; a transaction is open
\* only between the SELECT and the COMMIT of an acquireJob, so every exit of
\* acquireJob, by COMMIT or by the ROLLBACK of its catch block, leaves the
\* connection without an open transaction.
C31_TransactionEnded ==
  /\ [](\A l \in LoopIds : loops[l].transaction => loops[l].pc \in {"update", "commit"})
  /\ [][\A l \in LoopIds :
          AcquireSelect(l) /\ SelectForUpdate(NameOf(l)) = NoJob =>
            /\ tables' = tables
            /\ loops'[l].pc = "catch"
            /\ loops'[l].error = AcquirableJobNotFoundError
            /\ ~loops'[l].transaction]_vars
  /\ [][\A l \in LoopIds :
          loops[l].pc \in {"select", "update", "commit"}
            /\ loops'[l].pc \notin {"select", "update", "commit"}
          => ~loops'[l].transaction]_vars

\* A transaction that had locked a row has been rolled back: the loop is in
\* the catch block with the driver's error and another loop has gone on.
C31_Witness ==
  \E l, k \in LoopIds :
    /\ loops[l].pc = "catch" /\ loops[l].error = DriverError /\ ~loops[l].transaction
    /\ loops[k].pc = "catch" /\ loops[k].error = AcquirableJobNotFoundError
    /\ \E id \in Rows("A") : tables["A"][id].state = JobState.waiting

\* The connection of a loop whose processor runs has no open transaction
\* and holds no row lock.
C32_Committed(l) ==
  /\ ~loops[l].transaction
  /\ loops[l].pc \notin {"update", "commit"}
  /\ loops[l].job \notin Locked(NameOf(l))

\* C32 as stated: while a processor runs, the acquireJob transaction has
\* committed and the job's persisted state is active.
C32_ActiveWhileProcessing ==
  \A l \in LoopIds :
    loops[l].pc = "attempt" =>
      /\ C32_Committed(l)
      /\ loops[l].job \in Rows(NameOf(l))
      /\ tables[NameOf(l)][loops[l].job].state = JobState.active

\* C32: while a processor runs, the acquireJob transaction has committed,
\* and the job's row is active as long as empty() has not deleted it.
C32_ActiveUnlessDeleted ==
  \A l \in LoopIds :
    loops[l].pc = "attempt" =>
      /\ C32_Committed(l)
      /\ hist[NameOf(l)][loops[l].job].acquired = 1
      /\ loops[l].job \in Rows(NameOf(l)) =>
            tables[NameOf(l)][loops[l].job].state = JobState.active

\* The processor is about to be called a second time for a job whose row is
\* active.
C32_Witness ==
  \E l \in LoopIds :
    /\ loops[l].pc = "attempt" /\ loops[l].attempt = 2
    /\ loops[l].job \in Rows(NameOf(l))
    /\ tables[NameOf(l)][loops[l].job].state = JobState.active

\* The row of the job that loop l holds has been deleted.
C33_Deleted(l) ==
  /\ loops[l].pc \in {"updC", "updF"}
  /\ loops[l].job \notin Rows(NameOf(l))

\* C33: when empty() has deleted a leased job, the Worker's final updates
\* fail with JobNotFoundError, no terminal event is emitted and no row is
\* written, and the error is emitted on the Queue's 'error' channel, after
\* which the Worker sleeps waitingInterval and goes on.
C33_DeletedLeaseReported ==
  [][\A l \in LoopIds :
       /\ C33_Deleted(l)
             /\ (\E t \in {"none", "worker", "queue"} :
                   UpdateCompleted(l, t) \/ UpdateFailed(l, t)) =>
             /\ loops'[l].pc = IF loops[l].pc = "updC" THEN "updF" ELSE "catch"
             /\ loops'[l].error = JobNotFoundError(loops[l].job)
             /\ hist' = hist
             /\ tables' = tables
       /\ loops[l].pc = "catch" /\ loops[l].error.name = "JobNotFoundError"
             /\ loops'[l] # loops[l] =>
             /\ loops'[l].pc = "sleepW"
             /\ loops'[l].last = "error"]_vars

\* A row of table n that an acquireJob beginning now can take.
C34_Visible(n) ==
  {id \in Rows(n) : tables[n][id].state = JobState.waiting /\ id \notin Locked(n)}

C35_SleepBetweenAcquires ==
  [][\A l \in LoopIds : loops'[l] # loops[l] =>
       /\ loops[l].pc = "catch" => loops'[l].pc \in {"sleepW", "rejected"}
       /\ loops'[l].pc = "catch" =>
            loops[l].pc \in {"getClient", "select", "update", "commit", "updF"}
       /\ loops'[l].pc = "sleepW" => loops[l].pc = "catch"
       /\ loops[l].pc \in {"updC", "updF"} /\ loops'[l].job = NoJob
            /\ loops'[l].error = NoError =>
            loops'[l].pc \in {"sleepP", "resolved"}
       /\ loops'[l].pc = "sleepP" => loops[l].pc \in {"free", "sleepW", "updC", "updF"}
       /\ loops'[l].pc = "getClient" => loops[l].pc = "sleepP"
       /\ loops'[l].pc = "select" => loops[l].pc = "getClient"]_vars

\* A Worker that completed a job went on with the processingInterval sleep
\* only, found no job in its next cycle and sleeps waitingInterval.
C35_Witness ==
  /\ \E l \in LoopIds : loops[l].pc = "sleepW" /\ loops[l].last = "waiting"
  /\ \E id \in Rows("A") : tables["A"][id].state = JobState.completed

\* What initQueueData does for call c when statement number at raises code:
\* the statements before it have run; an 'already exists' code is swallowed
\* and the statements after it run, any other code ends initQueueData with
\* the error and no further statement.
C36_Outcome(c, at, code) ==
  LET backend == database.backend
      statements == Statements(backend, queues[calls[c].queue].name)
      before == executeAll(backend, database.schema, SubSeq(statements, 1, at - 1))
      met == query(backend, before.schema, Raising(statements[at], code))
      rest == executeAll(backend, met.schema,
                         SubSeq(statements, at + 1, Len(statements)))
  IN
  /\ before.error = NoError
  /\ IF code \in AlreadyExists(backend)
     THEN database'.schema = rest.schema /\ calls'[c].result.error = rest.error
     ELSE database'.schema = met.schema
          /\ calls'[c].result.error = DatabaseError(code)

C37_InitialisedQueueHasIndex ==
  \A c \in CallIds :
    /\ calls[c].op = "initialize"
    /\ calls[c].pc \in {"finally", "settled"}
    /\ calls[c].result.error = NoError
    => Object("index", "idx_queue_priority_order", queues[calls[c].queue].name)
         \in database.schema

\* C38: a job is persisted as failed, or has a 'failed' event, only if its
\* processor was called maxRetries times and threw at the last call: never
\* when its processor returned.
C38_FailedOnlyAfterRetries ==
  \A id \in DOMAIN hist["A"] :
    \/ id \in Rows("A") /\ tables["A"][id].state = JobState.failed
    \/ \E i \in DOMAIN hist["A"][id].events : hist["A"][id].events[i].event = "failed"
    => /\ ~hist["A"][id].ok
       /\ hist["A"][id].calls = workers[hist["A"][id].worker].maxRetries

\* Job id of queue A was leased by Worker w and is not finalised.
C39_Leased(w, id) ==
  /\ hist["A"][id].acquired > 0
  /\ hist["A"][id].worker = w
  /\ \/ id \in Rows("A") /\ tables["A"][id].state = JobState.active
     \/ ~\E i \in DOMAIN hist["A"][id].events :
           hist["A"][id].events[i].event \in {"completed", "failed"}

\* C39: in the step in which a stop() call on a Worker resolves, every job
\* the Worker leased has been updated to completed or failed and its terminal
\* event has been emitted.
C39_FinalisedWhenStopResolves ==
  [][\A w \in WorkerIds, i \in 1..MaxStopCalls :
       C12_StopResolves(w, i) =>
         \A id \in DOMAIN hist["A"] : ~C39_Leased(w, id)']_vars

\* The create of Queue q has rejected: the program holds no handle on q.
C40_Lost(q) == queues[q].status = "constructed" /\ queues[q].handle = "lost"

\* C40: create registers the name in the constructor, before initialize()
\* has done anything; a name leaves the registry only at the end of a
\* close(); and after a create whose initialize() rejected, the name stays
\* registered and every later create with that name is rejected as a
\* duplicate.
C40_NameStaysRegistered ==
  /\ [](\A q \in QueueIds : C40_Lost(q) => instances[queues[q].name] = q)
  /\ [][\A q \in QueueIds, n \in Names, a \in BOOLEAN :
          Create(q, n, a) =>
            /\ instances[n] = NoQueue =>
                 /\ instances'[n] = q
                 /\ \E c \in CallIds : calls'[c].queue = q /\ calls'[c].pc = "getClient"
            /\ (\E p \in QueueIds : C40_Lost(p) /\ queues[p].name = n) =>
                 /\ queues'[q].status = "rejected"
                 /\ queues'[q].error = QueueExistsError(n)
                 /\ instances' = instances]_vars
  /\ [][\A n \in Names :
          instances[n] # NoQueue /\ instances'[n] # instances[n] =>
            \E q \in QueueIds, c \in CloseIds : QueueCloseDelete(q, c) /\ queues[q].name = n]_vars

====
